---- MODULE Spec2Model ----
(***************************************************************************)
(* State-machine model of the debugging and fault simulation monitor       *)
(* (debug_fault_sim.c): the event log, the fault history, the health       *)
(* tracker, the fault injector, the recovery engine and the polling loop   *)
(* of main() that drives them.                                             *)
(*                                                                         *)
(* monitor  : the debug_monitor_t of main()                                *)
(* statics  : the function-local static counters of the program            *)
(* pc       : the position of main()                                       *)
(* now      : the value time(NULL) returns                                 *)
(* sink     : what has been done to the log file: the times it was opened  *)
(*            and closed, the lines written to it, and the operations      *)
(*            made on it while it was not open                             *)
(* trace    : observation of the last operation: its name, the calls of    *)
(*            log_message it made and the lines it printed                 *)
(* observed : the time of the first health tick and of every watchdog      *)
(*            entry appended so far                                        *)
(* env      : the inputs the run may receive (operator keys, rand() draws, *)
(*            clock advances) and the number of loop iterations explored   *)
(* twin     : the monitor and the statics of the run that receives the     *)
(*            same keys, draws and clock readings but in which fopen had   *)
(*            the other outcome                                            *)
(***************************************************************************)
EXTENDS Integers, Sequences, FiniteSets, TLC

VARIABLES monitor, statics, pc, simulation_running, now, iter, sink, exit_code,
          trace, observed, env, twin, vfd, vfd_pc, vfd_last

vars == <<monitor, statics, pc, simulation_running, now, iter, sink, exit_code,
          trace, observed, env, twin, vfd, vfd_pc, vfd_last>>

\* The variables of the debug monitor (debug_fault_sim.c) and those of the VFD
\* emulator (part_001), which are two programs.
monitor_vars == <<monitor, statics, pc, simulation_running, now, iter, sink,
                  exit_code, trace, observed, env, twin>>

vfd_vars == <<vfd, vfd_pc, vfd_last>>

----------------------------------------------------------------------------
\* Bounds of the model.

\* Capacity of the event log. The source sets 1000 (line 83); the model runs
\* the same code with a small capacity so that the full buffer is reached.
MAX_LOG_ENTRIES == 5

\* Capacity of the fault history. The source sets 50 (line 85).
MAX_FAULT_HISTORY == 2

\* Loop iterations explored when every input is free.
MaxIter == 4

\* Loop iterations explored in the long, quiet scenarios.
MaxIterLong == 22

\* time(NULL) when the program starts (any value other than 0).
StartTime == 1

----------------------------------------------------------------------------
\* Program constants.

ERR_NONE == 0
ERR_SENSOR_FAILURE == 1
ERR_ACTUATOR_STUCK == 2
ERR_COMMUNICATION_LOST == 3
ERR_POWER_FLUCTUATION == 4
ERR_MEMORY_CORRUPTION == 5
ERR_WATCHDOG_TIMEOUT == 6
ERR_INVALID_STATE == 7
ERR_FILE_IO_ERROR == 8
ERR_SYSTEM_OVERLOAD == 9

LOG_DEBUG == 0
LOG_INFO == 1
LOG_WARNING == 2
LOG_ERROR == 3
LOG_CRITICAL == 4

STATE_INIT == 0
STATE_RUNNING == 1
STATE_FAULT == 2
STATE_RECOVERY == 3
STATE_SHUTDOWN == 4

FAULT_NONE == 0
FAULT_SENSOR_NOISE == 1
FAULT_ACTUATOR_FAIL == 2
FAULT_COMM_BREAK == 3
FAULT_POWER_SPIKE == 4
FAULT_MEMORY_LEAK == 5

\* "current_time - last_watchdog_feed >= 5"
WATCHDOG_TIMEOUT_S == 5

\* usleep(2000000) of attempt_fault_recovery, in seconds
RECOVERY_DELAY_S == 2

\* uint16_t fault_count, recovery_count
UINT16_MOD == 65536

\* "fault_call_count % 4 == 0"
THROTTLE_DIVISOR == 4

\* "noise_count % 5 == 0" and its four siblings
EFFECT_DIVISOR == 5

FaultKinds == FAULT_SENSOR_NOISE .. FAULT_MEMORY_LEAK

----------------------------------------------------------------------------
\* Inputs.

\* Two consecutive draws rand() % n1 and rand() % n2, sampled at both ends of
\* their ranges.
RandPair(n1, n2) == {<<0, 0>>, <<n1 - 1, n2 - 1>>}

\* Every input free, few iterations. A clock advance of 0 is an iteration
\* inside one second; the larger one is a stalled process.
EnvFull == [name |-> "full",
            keys |-> {"none", "q", "f", "r", "d", "x"},
            kinds |-> {0, 1},
            advance |-> {0, WATCHDOG_TIMEOUT_S},
            sensor |-> {5},
            max_iter |-> MaxIter]

\* One iteration or less per second, no operator, healthy sensor.
EnvQuiet == [name |-> "quiet",
             keys |-> {"none"},
             kinds |-> {1},
             advance |-> {1},
             sensor |-> {5},
             max_iter |-> MaxIterLong]

\* The operator only injects, and rand() draws 1 (FAULT_ACTUATOR_FAIL).
EnvInject == [name |-> "inject",
              keys |-> {"none", "f"},
              kinds |-> {1},
              advance |-> {0},
              sensor |-> {5},
              max_iter |-> MaxIterLong]

\* No operator; the sensor draw is free (a draw below 5 is a failed reading).
EnvSensor == [name |-> "sensor",
              keys |-> {"none"},
              kinds |-> {1},
              advance |-> {0},
              sensor |-> {4, 5},
              max_iter |-> MaxIter + 2]

\* The sensor fails on every reading while the operator injects and recovers.
EnvStorm == [name |-> "storm",
             keys |-> {"none", "f", "r"},
             kinds |-> {1},
             advance |-> {0},
             sensor |-> {4},
             max_iter |-> MaxIter + 3]

Envs == {EnvFull, EnvQuiet, EnvInject, EnvSensor, EnvStorm}

----------------------------------------------------------------------------
\* The monitor after memset(monitor, 0, sizeof(debug_monitor_t)).

ZeroHealth == [current_state |-> STATE_INIT,
               uptime_seconds |-> 0,
               fault_count |-> 0,
               recovery_count |-> 0,
               cpu_usage_percent |-> 0,
               memory_usage_percent |-> 0,
               last_health_check |-> 0]

ZeroMonitor == [log_buffer |-> <<>>,
                fault_history |-> <<>>,
                health |-> ZeroHealth,
                log_file |-> "null",
                fault_injection_enabled |-> FALSE,
                active_fault |-> FAULT_NONE]

\* log_count and fault_count of debug_monitor_t: the occupied prefix of each array.
log_count(m) == Len(m.log_buffer)

fault_count(m) == Len(m.fault_history)

ZeroStatics == [fault_call_count |-> 0,
                last_fault_trigger |-> 0,
                last_watchdog_feed |-> 0,
                watchdog_logged |-> FALSE,
                consecutive_failures |-> 0,
                effect_count |-> [k \in FaultKinds |-> 0]]

\* The trace of an operation that starts on monitor m: its name, its argument,
\* what m held when it started, and no call, line or state assignment yet;
\* depth is the number of calls of log_message that have not returned.
NewTrace(op, m) ==
    [op |-> op,
     arg |-> 0,
     before |-> [current_state |-> m.health.current_state,
                 log_count |-> log_count(m),
                 fault_count |-> fault_count(m)],
     appended |-> <<>>,
     console |-> <<>>,
     states |-> <<>>,
     depth |-> 0]

\* "monitor->health.current_state = state", recorded in the trace.
SetState(s, state) ==
    [s EXCEPT !.m.health.current_state = state,
              !.t.states = Append(@, state)]

----------------------------------------------------------------------------
\* log_message

\* The line printf writes for an entry of level >= LOG_WARNING.
ConsoleLine(level, message) ==
    [tag |-> IF level = LOG_WARNING THEN "WARN"
             ELSE IF level = LOG_ERROR THEN "ERROR" ELSE "CRIT",
     message |-> message]

\* Faulty variant: the test is "log_count > MAX_LOG_ENTRIES", so a full buffer
\* is written past its end.
EvictOldest_LateTest(buf) ==
    IF Len(buf) > MAX_LOG_ENTRIES
    THEN SubSeq(buf, 2, MAX_LOG_ENTRIES)
    ELSE buf

\* Faulty variant: a full buffer loses its newest entry instead of entry 0.
EvictOldest_DropsNewest(buf) ==
    IF Len(buf) >= MAX_LOG_ENTRIES
    THEN SubSeq(buf, 1, MAX_LOG_ENTRIES - 1)
    ELSE buf

\* Lines 367-372: a full buffer loses entry 0 and the others move down.
EvictOldest(buf) ==
    IF Len(buf) >= MAX_LOG_ENTRIES
    THEN SubSeq(buf, 2, MAX_LOG_ENTRIES)
    ELSE buf

\* Faulty variant: the console test is "level >= LOG_INFO".
StoreEntry_PrintsInfo(s, level, error, message) ==
    LET entry == [level |-> level, error_code |-> error, message |-> message]
    IN  [s EXCEPT
           !.m.log_buffer = Append(EvictOldest(@), entry),
           !.t.appended = Append(@, [entry |-> entry,
                                     state |-> s.m.health.current_state,
                                     count |-> log_count(s.m),
                                     depth |-> s.t.depth]),
           !.t.console = IF level >= LOG_INFO
                         THEN Append(@, ConsoleLine(level, message))
                         ELSE @]

\* Lines 374-389: the entry is stored in the next slot and mirrored to the
\* console when it is a warning or worse. s holds the monitor (m), the statics
\* (st) and the trace of the running operation (t).
StoreEntry(s, level, error, message) ==
    LET entry == [level |-> level, error_code |-> error, message |-> message]
    IN  [s EXCEPT
           !.m.log_buffer = Append(EvictOldest(@), entry),
           !.t.appended = Append(@, [entry |-> entry,
                                     state |-> s.m.health.current_state,
                                     count |-> log_count(s.m),
                                     depth |-> s.t.depth]),
           !.t.console = IF level >= LOG_WARNING
                         THEN Append(@, ConsoleLine(level, message))
                         ELSE @]

\* Faulty variant: the nested call of log_message counts the fault again.
CountFault_Twice(n) == (n + 2) % UINT16_MOD

\* Line 393: health.fault_count++ on a uint16_t.
CountFault(n) == (n + 1) % UINT16_MOD

\* Faulty variant: warnings escalate too.
Escalates_OnWarning(level, state) == level >= LOG_WARNING /\ state = STATE_RUNNING

\* Lines 392, 394: the condition under which the state machine escalates.
Escalates(level, state) == level >= LOG_ERROR /\ state = STATE_RUNNING

RECURSIVE log_message(_, _, _, _)

\* Faulty variant: fault_count is counted inside the test on STATE_RUNNING, so
\* it counts the escalations.
log_message_CountsEscalations(s, level, error, message) ==
    LET s0 == [s EXCEPT !.t.depth = @ + 1]
        s1 == StoreEntry(s0, level, error, message)
        s3 == IF Escalates(level, s1.m.health.current_state)
              THEN log_message(SetState([s1 EXCEPT !.m.health.fault_count = CountFault(@)],
                                        STATE_FAULT),
                               LOG_WARNING, error, "System entered fault state")
              ELSE s1
    IN  [s3 EXCEPT !.t.depth = @ - 1]

\* Faulty variant: the nested entry does not carry the error kind.
log_message_NestedWithoutKind(s, level, error, message) ==
    LET s0 == [s EXCEPT !.t.depth = @ + 1]
        s1 == StoreEntry(s0, level, error, message)
        s2 == IF level >= LOG_ERROR
              THEN [s1 EXCEPT !.m.health.fault_count = CountFault(@)]
              ELSE s1
        s3 == IF Escalates(level, s2.m.health.current_state)
              THEN log_message(SetState(s2, STATE_FAULT),
                               LOG_WARNING, ERR_NONE, "System entered fault state")
              ELSE s2
    IN  [s3 EXCEPT !.t.depth = @ - 1]

log_message(s, level, error, message) ==
    LET s0 == [s EXCEPT !.t.depth = @ + 1]
        s1 == StoreEntry(s0, level, error, message)
        s2 == IF level >= LOG_ERROR
              THEN [s1 EXCEPT !.m.health.fault_count = CountFault(@)]
              ELSE s1
        s3 == IF Escalates(level, s2.m.health.current_state)
              THEN log_message(SetState(s2, STATE_FAULT),
                               LOG_WARNING, error, "System entered fault state")
              ELSE s2
    IN  [s3 EXCEPT !.t.depth = @ - 1]

LogInfo(s, message) == log_message(s, LOG_INFO, ERR_NONE, message)

----------------------------------------------------------------------------
\* The log file.

SinkIsOpen(sk) == sk.closes < sk.opens

\* fopen(LOG_FILE_PATH, "a"), line 320.
open_log_file(sk, opened) ==
    IF opened THEN [sk EXCEPT !.opens = @ + 1] ELSE sk

\* fprintf of one line; on a FILE that is not open it is a misuse.
write_line(sk, line) ==
    IF SinkIsOpen(sk)
    THEN [sk EXCEPT !.lines = Append(@, line)]
    ELSE [sk EXCEPT !.misuse = @ + 1]

\* fclose; on a FILE that is not open it is a misuse.
close_log_file(sk) ==
    IF SinkIsOpen(sk)
    THEN [sk EXCEPT !.closes = @ + 1]
    ELSE [sk EXCEPT !.misuse = @ + 1]

----------------------------------------------------------------------------
\* The state of the program when main() starts.

----------------------------------------------------------------------------
\* The VFD emulator (src/unnamed/part_001)

\* Frequencies are held as whole numbers of 1/UnitsPerHz Hz. The source holds
\* them in floats; multiples of 1/2 Hz up to 60 Hz and their sums and
\* differences with 1.0 are exact in a float.
UnitsPerHz == 2

MIN_FREQUENCY == 0
MAX_FREQUENCY == 60 * UnitsPerHz

\* Hz per second.
RAMP_RATE == 10

\* 0.1f seconds, held in tenths of a second.
SIMULATION_STEP == 1

\* vfd_state_t. STATE_RUNNING is the monitor's, so these carry a prefix.
VFD_STATE_OFF == 0
VFD_STATE_STARTING == 1
VFD_STATE_RUNNING == 2
VFD_STATE_STOPPING == 3

\* The frequency vfd_start sets, 30.0f.
StartFrequency == 30 * UnitsPerHz

\* What scanf may deliver for "f": out of range on either side, the two ends
\* of the range, the smallest step above 0 and a value off the ramp's grid.
FrequencyInputs ==
    {MIN_FREQUENCY - 1, MIN_FREQUENCY, MIN_FREQUENCY + 1, StartFrequency + 1,
     MAX_FREQUENCY, MAX_FREQUENCY + 1}

\* fabs
Abs(x) == IF x < 0 THEN -x ELSE x

\* vfd_init; the outputs derived from current_frequency (output_voltage,
\* motor_speed, motor_torque) and ramp_time are written and never read back.
vfd_init ==
    [state |-> VFD_STATE_OFF, target_frequency |-> 0, current_frequency |-> 0]

vfd_set_frequency(v, frequency) ==
    IF v.state = VFD_STATE_RUNNING
    THEN [v EXCEPT !.target_frequency = frequency]
    ELSE v

\* Faulty variant: the test on STATE_OFF is missing.
vfd_start_Unguarded(v) ==
    [v EXCEPT !.state = VFD_STATE_STARTING,
              !.target_frequency = StartFrequency]

vfd_start(v) ==
    IF v.state = VFD_STATE_OFF
    THEN [v EXCEPT !.state = VFD_STATE_STARTING,
                   !.target_frequency = StartFrequency]
    ELSE v

vfd_stop(v) ==
    IF v.state = VFD_STATE_RUNNING \/ v.state = VFD_STATE_STARTING
    THEN [v EXCEPT !.state = VFD_STATE_STOPPING,
                   !.target_frequency = 0]
    ELSE v

\* RAMP_RATE * dt: 10.0f * 0.1f is 1.0f in float arithmetic.
ramp_increment(dt) == (RAMP_RATE * UnitsPerHz * dt) \div 10

\* "current_frequency += (freq_diff > 0) ? ramp_increment : -ramp_increment"
Ramp(current, freq_diff, inc) ==
    current + (IF freq_diff > 0 THEN inc ELSE 0 - inc)

\* Faulty variant: the STOPPING case zeroes the frequency and forgets
\* "vfd->state = STATE_OFF".
vfd_update_StaysStopping(v, dt) ==
    LET inc == ramp_increment(dt)
        cur == v.current_frequency
        diff == v.target_frequency - cur
    IN  IF v.state = VFD_STATE_STARTING
        THEN IF Abs(diff) < inc
             THEN [v EXCEPT !.current_frequency = v.target_frequency,
                            !.state = VFD_STATE_RUNNING]
             ELSE [v EXCEPT !.current_frequency = Ramp(cur, diff, inc)]
        ELSE IF v.state = VFD_STATE_RUNNING
        THEN IF Abs(diff) > inc
             THEN [v EXCEPT !.current_frequency = Ramp(cur, diff, inc)]
             ELSE [v EXCEPT !.current_frequency = v.target_frequency]
        ELSE IF v.state = VFD_STATE_STOPPING
        THEN IF Abs(cur) < inc
             THEN [v EXCEPT !.current_frequency = 0]
             ELSE [v EXCEPT !.current_frequency = Ramp(cur, 0 - cur, inc)]
        ELSE [v EXCEPT !.current_frequency = 0]

\* vfd_update, the switch of lines 233-285.
vfd_update(v, dt) ==
    LET inc == ramp_increment(dt)
        cur == v.current_frequency
        diff == v.target_frequency - cur
    IN  IF v.state = VFD_STATE_STARTING
        THEN IF Abs(diff) < inc
             THEN [v EXCEPT !.current_frequency = v.target_frequency,
                            !.state = VFD_STATE_RUNNING]
             ELSE [v EXCEPT !.current_frequency = Ramp(cur, diff, inc)]
        ELSE IF v.state = VFD_STATE_RUNNING
        THEN IF Abs(diff) > inc
             THEN [v EXCEPT !.current_frequency = Ramp(cur, diff, inc)]
             ELSE [v EXCEPT !.current_frequency = v.target_frequency]
        ELSE IF v.state = VFD_STATE_STOPPING
        THEN IF Abs(cur) < inc
             THEN [v EXCEPT !.current_frequency = 0,
                            !.state = VFD_STATE_OFF]
             ELSE [v EXCEPT !.current_frequency = Ramp(cur, 0 - cur, inc)]
        ELSE [v EXCEPT !.current_frequency = 0]

\* The emulator after vfd_init, at the top of its loop. vfd_last is the step
\* the loop took last: the key read (or "update"), the frequency entered, and
\* the commands turned down in STOPPING since the last stop was accepted.
VfdConstructed ==
    /\ vfd = vfd_init
    /\ vfd_pc = "command"
    /\ vfd_last = [key |-> "none", frequency |-> 0, rejected |-> {}]

Init ==
    /\ env \in Envs
    /\ monitor = ZeroMonitor
    /\ statics = ZeroStatics
    /\ pc = "init"
    /\ simulation_running = TRUE
    /\ now = StartTime
    /\ iter = 0
    /\ sink = [opens |-> 0, lines |-> <<>>, closes |-> 0, misuse |-> 0]
    /\ exit_code = -1
    /\ trace = NewTrace("start", ZeroMonitor)
    /\ observed = [first_tick |-> 0,
                   watchdog_at |-> <<>>,
                   enabled_ticks |-> 0,
                   quit_state |-> STATE_INIT,
                   appends |-> 0,
                   errors |-> 0,
                   run |-> [kind |-> FAULT_NONE, since |-> 0, seen |-> 0]]
    /\ twin = [m |-> ZeroMonitor, st |-> ZeroStatics]
    /\ VfdConstructed

\* The operation op starts on the current monitor and statics.
Begin(op) == [m |-> monitor, st |-> statics, t |-> NewTrace(op, monitor)]

\* The operation leaves s behind; obs is what it adds to the observations
\* other than the number of entries appended and the number of those of level
\* Error or higher.
CommitObserved(s, obs) ==
    /\ monitor' = s.m
    /\ statics' = s.st
    /\ trace' = s.t
    /\ observed' = [obs EXCEPT
                      !.appends = @ + Len(s.t.appended),
                      !.errors = @ + Cardinality({i \in 1..Len(s.t.appended) :
                                     s.t.appended[i].entry.level >= LOG_ERROR})]

Commit(s) == CommitObserved(s, observed)

\* The same operation starts in the twin run, and leaves s behind there.
BeginTwin(op) == [m |-> twin.m, st |-> twin.st, t |-> NewTrace(op, twin.m)]

CommitTwin(s) == twin' = [m |-> s.m, st |-> s.st]

\* Faulty variant: debug_init gives up when fopen fails.
debug_init_StopsWithoutSink(s, opened) ==
    LET s0 == [s EXCEPT
                 !.m = [ZeroMonitor EXCEPT
                          !.log_file = IF opened THEN "open" ELSE "null",
                          !.health.last_health_check = now],
                 !.t.states = Append(@, STATE_INIT)]
        s1 == LogInfo(s0, "Debug monitoring system initialized")
    IN  IF opened
        THEN LogInfo(SetState(s1, STATE_RUNNING), "System transitioned to RUNNING state")
        ELSE s0

\* Faulty variant: the failure of fopen is logged as an error once the state
\* is Running.
debug_init_LogsOpenFailure(s, opened) ==
    LET s0 == [s EXCEPT
                 !.m = [ZeroMonitor EXCEPT
                          !.log_file = IF opened THEN "open" ELSE "null",
                          !.health.current_state = STATE_INIT,
                          !.health.uptime_seconds = 0,
                          !.health.last_health_check = now],
                 !.t.states = Append(@, STATE_INIT),
                 !.t.console = IF opened THEN @
                               ELSE Append(@, [tag |-> "Warning",
                                               message |-> "Could not open log file"])]
        s1 == LogInfo(s0, "Debug monitoring system initialized")
        s2 == LogInfo(SetState(s1, STATE_RUNNING), "System transitioned to RUNNING state")
    IN  IF opened
        THEN s2
        ELSE log_message(s2, LOG_ERROR, ERR_FILE_IO_ERROR, "Could not open log file")

\* debug_init, for either outcome of fopen.
debug_init(s, opened) ==
    LET s0 == [s EXCEPT
                 !.m = [ZeroMonitor EXCEPT
                          !.log_file = IF opened THEN "open" ELSE "null",
                          !.health.current_state = STATE_INIT,
                          !.health.uptime_seconds = 0,
                          !.health.last_health_check = now],
                 !.t.states = Append(@, STATE_INIT),
                 !.t.console = IF opened THEN @
                               ELSE Append(@, [tag |-> "Warning",
                                               message |-> "Could not open log file"])]
        s1 == LogInfo(s0, "Debug monitoring system initialized")
        s2 == SetState(s1, STATE_RUNNING)
    IN  LogInfo(s2, "System transitioned to RUNNING state")

DebugInit ==
    /\ pc = "init"
    /\ \E opened \in BOOLEAN :
         /\ Commit(debug_init(Begin("debug_init"), opened))
         /\ CommitTwin(debug_init(BeginTwin("debug_init"), ~opened))
         /\ sink' = open_log_file(sink, opened)
    /\ pc' = "main_start"
    /\ UNCHANGED <<simulation_running, now, iter, exit_code, env>>
    /\ UNCHANGED vfd_vars

\* main, line 229.
MainStart ==
    /\ pc = "main_start"
    /\ Commit(LogInfo(Begin("main_start"), "System initialization started"))
    /\ CommitTwin(LogInfo(BeginTwin("main_start"), "System initialization started"))
    /\ pc' = "health"
    /\ UNCHANGED <<simulation_running, now, iter, sink, exit_code, env>>
    /\ UNCHANGED vfd_vars

----------------------------------------------------------------------------
\* check_system_health

\* Faulty variant: a timeout neither restarts the window nor is remembered.
WatchdogStatics_WindowNotRestarted(st, current_time) ==
    IF st.last_watchdog_feed = 0
    THEN [st EXCEPT !.last_watchdog_feed = current_time,
                    !.watchdog_logged = FALSE]
    ELSE st

\* Lines 445-459: the watchdog statics at time current_time; fires says whether
\* the Critical entry is logged on this call.
WatchdogFires(st, current_time) ==
    /\ st.last_watchdog_feed # 0
    /\ current_time - st.last_watchdog_feed >= WATCHDOG_TIMEOUT_S
    /\ ~st.watchdog_logged

WatchdogStatics(st, current_time) ==
    IF st.last_watchdog_feed = 0
    THEN [st EXCEPT !.last_watchdog_feed = current_time,
                    !.watchdog_logged = FALSE]
    ELSE IF current_time - st.last_watchdog_feed >= WATCHDOG_TIMEOUT_S
    THEN [st EXCEPT !.watchdog_logged = TRUE,
                    !.last_watchdog_feed = current_time]
    ELSE st

\* Faulty variant: a tick that finds nothing wrong takes the state back to
\* Running.
check_system_health_AutoRecovers(s, current_time, rc, rm) ==
    LET s1 == [s EXCEPT
                 !.m.health.uptime_seconds = current_time - s.m.health.last_health_check,
                 !.m.health.cpu_usage_percent = 10 + rc,
                 !.m.health.memory_usage_percent = 20 + rm]
        s4 == IF WatchdogFires(s1.st, current_time)
              THEN log_message(s1, LOG_CRITICAL, ERR_WATCHDOG_TIMEOUT,
                               "Watchdog timeout detected")
              ELSE IF s1.m.health.current_state = STATE_FAULT
              THEN SetState(s1, STATE_RUNNING)
              ELSE s1
        s5 == [s4 EXCEPT !.st = WatchdogStatics(@, current_time)]
    IN  [s5 EXCEPT !.m.health.last_health_check = current_time]

\* Faulty variant: the gauges are drawn from the whole range 10..109 and
\* 20..119 (three times the draws), so they pass the thresholds.
check_system_health_WideGauges(s, current_time, rc, rm) ==
    LET s1 == [s EXCEPT
                 !.m.health.uptime_seconds = current_time - s.m.health.last_health_check,
                 !.m.health.cpu_usage_percent = 10 + 3 * rc,
                 !.m.health.memory_usage_percent = 20 + 3 * rm]
        s2 == IF s1.m.health.cpu_usage_percent > 90
              THEN log_message(s1, LOG_ERROR, ERR_SYSTEM_OVERLOAD, "CPU usage critical")
              ELSE s1
        s3 == IF s2.m.health.memory_usage_percent > 85
              THEN log_message(s2, LOG_ERROR, ERR_MEMORY_CORRUPTION, "Memory usage critical")
              ELSE s2
        s4 == IF WatchdogFires(s3.st, current_time)
              THEN log_message(s3, LOG_CRITICAL, ERR_WATCHDOG_TIMEOUT,
                               "Watchdog timeout detected")
              ELSE s3
        s5 == [s4 EXCEPT !.st = WatchdogStatics(@, current_time)]
    IN  [s5 EXCEPT !.m.health.last_health_check = current_time]

\* rc and rm are the two draws rand() % 40 and rand() % 60.
check_system_health(s, current_time, rc, rm) ==
    LET s1 == [s EXCEPT
                 !.m.health.uptime_seconds = current_time - s.m.health.last_health_check,
                 !.m.health.cpu_usage_percent = 10 + rc,
                 !.m.health.memory_usage_percent = 20 + rm]
        s2 == IF s1.m.health.cpu_usage_percent > 90
              THEN log_message(s1, LOG_ERROR, ERR_SYSTEM_OVERLOAD, "CPU usage critical")
              ELSE s1
        s3 == IF s2.m.health.memory_usage_percent > 85
              THEN log_message(s2, LOG_ERROR, ERR_MEMORY_CORRUPTION, "Memory usage critical")
              ELSE s2
        s4 == IF WatchdogFires(s3.st, current_time)
              THEN log_message(s3, LOG_CRITICAL, ERR_WATCHDOG_TIMEOUT,
                               "Watchdog timeout detected")
              ELSE s3
        s5 == [s4 EXCEPT !.st = WatchdogStatics(@, current_time)]
    IN  [s5 EXCEPT !.m.health.last_health_check = current_time]

IsWatchdogEntry(a) ==
    a.entry.level = LOG_CRITICAL /\ a.entry.error_code = ERR_WATCHDOG_TIMEOUT

HealthTick ==
    /\ pc = "health"
    /\ \E r \in RandPair(40, 60) :
         LET s == check_system_health(Begin("health_tick"), now, r[1], r[2])
         IN   /\ CommitObserved(s,
                  [observed EXCEPT
                     !.first_tick = IF @ = 0 THEN now ELSE @,
                     !.watchdog_at = IF \E i \in 1..Len(s.t.appended) :
                                          IsWatchdogEntry(s.t.appended[i])
                                     THEN Append(@, now)
                                     ELSE @])
              /\ CommitTwin(check_system_health(BeginTwin("health_tick"),
                                                now, r[1], r[2]))
    /\ pc' = "effect"
    /\ UNCHANGED <<simulation_running, now, iter, sink, exit_code, env>>
    /\ UNCHANGED vfd_vars

----------------------------------------------------------------------------
\* The fault effects

\* Severity, error kind and message of the event of each fault kind
\* (simulate_sensor_noise .. simulate_memory_corruption).
\* Faulty variant: the sensor-noise generator was copied from the actuator's
\* and kept its LOG_ERROR.
EffectLevel_NoiseAsError(kind) ==
    CASE kind = FAULT_SENSOR_NOISE -> LOG_ERROR
      [] kind = FAULT_ACTUATOR_FAIL -> LOG_ERROR
      [] kind = FAULT_COMM_BREAK -> LOG_ERROR
      [] kind = FAULT_POWER_SPIKE -> LOG_WARNING
      [] kind = FAULT_MEMORY_LEAK -> LOG_CRITICAL

EffectLevel(kind) ==
    CASE kind = FAULT_SENSOR_NOISE -> LOG_WARNING
      [] kind = FAULT_ACTUATOR_FAIL -> LOG_ERROR
      [] kind = FAULT_COMM_BREAK -> LOG_ERROR
      [] kind = FAULT_POWER_SPIKE -> LOG_WARNING
      [] kind = FAULT_MEMORY_LEAK -> LOG_CRITICAL

EffectError(kind) ==
    CASE kind = FAULT_SENSOR_NOISE -> ERR_SENSOR_FAILURE
      [] kind = FAULT_ACTUATOR_FAIL -> ERR_ACTUATOR_STUCK
      [] kind = FAULT_COMM_BREAK -> ERR_COMMUNICATION_LOST
      [] kind = FAULT_POWER_SPIKE -> ERR_POWER_FLUCTUATION
      [] kind = FAULT_MEMORY_LEAK -> ERR_MEMORY_CORRUPTION

EffectMessage(kind) ==
    CASE kind = FAULT_SENSOR_NOISE -> "Sensor noise simulation active"
      [] kind = FAULT_ACTUATOR_FAIL -> "Actuator failure simulation active"
      [] kind = FAULT_COMM_BREAK -> "Communication break simulation active"
      [] kind = FAULT_POWER_SPIKE -> "Power fluctuation simulation active"
      [] kind = FAULT_MEMORY_LEAK -> "Memory corruption simulation active"

\* Faulty variant: the event is logged on the first call of every five.
EffectDue_FirstCall(count) == count % EFFECT_DIVISOR = 1

\* "if (x_count % 5 == 0)" of the five generators.
EffectDue(count) == count % EFFECT_DIVISOR = 0

\* One call of the generator of kind: its static counter goes up and every
\* fifth call logs the event.
simulate_fault(s, kind) ==
    LET s1 == [s EXCEPT !.st.effect_count[kind] = @ + 1]
    IN  IF EffectDue(s1.st.effect_count[kind])
        THEN log_message(s1, EffectLevel(kind), EffectError(kind), EffectMessage(kind))
        ELSE s1

\* Faulty variant: the first stage of the throttle is missing.
ThrottleOpen_EveryTick(st) == st.fault_call_count # st.last_fault_trigger

\* "fault_call_count % 4 == 0 && fault_call_count != last_fault_trigger"
ThrottleOpen(st) ==
    /\ st.fault_call_count % THROTTLE_DIVISOR = 0
    /\ st.fault_call_count # st.last_fault_trigger

\* main, lines 240-268.
fault_effect_tick(s) ==
    IF s.m.fault_injection_enabled
    THEN LET s1 == [s EXCEPT !.st.fault_call_count = @ + 1]
         IN  IF ThrottleOpen(s1.st)
             THEN LET s2 == [s1 EXCEPT !.st.last_fault_trigger = s1.st.fault_call_count]
                  IN  IF s2.m.active_fault \in FaultKinds
                      THEN simulate_fault(s2, s2.m.active_fault)
                      ELSE s2
             ELSE s1
    ELSE s

\* The run of enabled ticks with one and the same fault kind active, after a
\* tick that appended an event (or not): the ticks of the run since its last
\* event and the events of the run.
RunAfterTick(run, m, event) ==
    IF ~m.fault_injection_enabled
    THEN run
    ELSE LET same == m.active_fault = run.kind
         IN  [kind |-> m.active_fault,
              since |-> IF event THEN 0 ELSE IF same THEN run.since + 1 ELSE 1,
              seen |-> (IF same THEN run.seen ELSE 0) + (IF event THEN 1 ELSE 0)]

FaultEffectTick ==
    /\ pc = "effect"
    /\ LET s == fault_effect_tick(Begin("effect_tick"))
       IN  CommitObserved(s,
             [observed EXCEPT
                !.enabled_ticks = IF monitor.fault_injection_enabled
                                  THEN @ + 1 ELSE @,
                !.run = RunAfterTick(@, monitor, s.t.appended # <<>>)])
    /\ CommitTwin(fault_effect_tick(BeginTwin("effect_tick")))
    /\ pc' = "command"
    /\ UNCHANGED <<simulation_running, now, iter, sink, exit_code, env>>
    /\ UNCHANGED vfd_vars

----------------------------------------------------------------------------
\* inject_fault

\* Faulty variant: the test is "fault_count <= MAX_FAULT_HISTORY".
HistoryHasRoom_OffByOne(m) == fault_count(m) <= MAX_FAULT_HISTORY

\* "if (monitor->fault_count < MAX_FAULT_HISTORY)"
HistoryHasRoom(m) == fault_count(m) < MAX_FAULT_HISTORY

\* The record of lines 411-416; error_code keeps the 0 of memset.
NewRecord(fault) ==
    [fault_type |-> fault, error_code |-> ERR_NONE, resolved |-> FALSE]

\* Faulty variant: a full history is reused from its last slot.
inject_fault_OverwritesLast(s, fault) ==
    LET s1 == [s EXCEPT !.m.fault_injection_enabled = TRUE,
                        !.m.active_fault = fault]
        s2 == IF HistoryHasRoom(s1.m)
              THEN [s1 EXCEPT !.m.fault_history = Append(@, NewRecord(fault))]
              ELSE [s1 EXCEPT !.m.fault_history[MAX_FAULT_HISTORY] = NewRecord(fault)]
    IN  log_message(s2, LOG_WARNING, ERR_NONE, "Fault injection activated")

\* Faulty variant: an injection while another fault is active is only logged.
inject_fault_KeepsActive(s, fault) ==
    LET s1 == IF s.m.fault_injection_enabled
              THEN s
              ELSE [s EXCEPT !.m.fault_injection_enabled = TRUE,
                             !.m.active_fault = fault]
        s2 == IF HistoryHasRoom(s1.m)
              THEN [s1 EXCEPT !.m.fault_history = Append(@, NewRecord(fault))]
              ELSE s1
    IN  log_message(s2, LOG_WARNING, ERR_NONE, "Fault injection activated")

inject_fault(s, fault) ==
    LET s1 == [s EXCEPT !.m.fault_injection_enabled = TRUE,
                        !.m.active_fault = fault]
        s2 == IF HistoryHasRoom(s1.m)
              THEN [s1 EXCEPT !.m.fault_history = Append(@, NewRecord(fault))]
              ELSE s1
    IN  log_message(s2, LOG_WARNING, ERR_NONE, "Fault injection activated")

----------------------------------------------------------------------------
\* attempt_fault_recovery

\* Lines 485-490, from record i on: an unresolved record is resolved and logged.
RECURSIVE ResolveFrom(_, _)

\* Faulty variant: the loop stops one record early.
ResolveFrom_StopsEarly(s, i) ==
    IF i >= fault_count(s.m)
    THEN s
    ELSE IF ~s.m.fault_history[i].resolved
    THEN ResolveFrom(LogInfo([s EXCEPT !.m.fault_history[i].resolved = TRUE],
                             "Fault resolved in recovery attempt"),
                     i + 1)
    ELSE ResolveFrom(s, i + 1)

\* Faulty variant: every record is logged, resolved before or not.
ResolveFrom_LogsEveryRecord(s, i) ==
    IF i > fault_count(s.m)
    THEN s
    ELSE ResolveFrom(LogInfo([s EXCEPT !.m.fault_history[i].resolved = TRUE],
                             "Fault resolved in recovery attempt"),
                     i + 1)

ResolveFrom(s, i) ==
    IF i > fault_count(s.m)
    THEN s
    ELSE IF ~s.m.fault_history[i].resolved
    THEN ResolveFrom(LogInfo([s EXCEPT !.m.fault_history[i].resolved = TRUE],
                             "Fault resolved in recovery attempt"),
                     i + 1)
    ELSE ResolveFrom(s, i + 1)

\* Line 482: health.recovery_count++ on a uint16_t.
CountRecovery(n) == (n + 1) % UINT16_MOD

\* Faulty variant: the recovery leaves the injected fault active.
EnterRecovery_KeepsInjection(s) ==
    [SetState(s, STATE_RECOVERY) EXCEPT
       !.m.health.recovery_count = CountRecovery(@)]

\* Faulty variant: the recovery switches the injection off and leaves
\* active_fault.
EnterRecovery_KeepsActiveFault(s) ==
    LET s1 == [s EXCEPT !.m.fault_injection_enabled = FALSE]
    IN  [SetState(s1, STATE_RECOVERY) EXCEPT
           !.m.health.recovery_count = CountRecovery(@)]

\* Lines 476-482: injection is switched off and the state machine enters
\* Recovery.
EnterRecovery(s) ==
    LET s1 == [s EXCEPT !.m.fault_injection_enabled = FALSE,
                        !.m.active_fault = FAULT_NONE]
    IN  [SetState(s1, STATE_RECOVERY) EXCEPT
           !.m.health.recovery_count = CountRecovery(@)]

\* Faulty variant: the recovery fails on an unlucky draw and reports it.
RecoverFromFault_MayFail(s, r1, r2) ==
    LET s1 == LogInfo(s, "Attempting fault recovery")
        s3 == ResolveFrom(EnterRecovery(s1), 1)
    IN  IF r1 = 0
        THEN log_message(SetState(s3, STATE_FAULT), LOG_ERROR, ERR_INVALID_STATE,
                         "Fault recovery failed")
        ELSE LogInfo(SetState(s3, STATE_RUNNING), "Fault recovery successful")

\* Faulty variant: the gauges are not reset after the recovery.
RecoverFromFault_KeepsGauges(s, r1, r2) ==
    LET s1 == LogInfo(s, "Attempting fault recovery")
        s3 == ResolveFrom(EnterRecovery(s1), 1)
    IN  LogInfo(SetState(s3, STATE_RUNNING), "Fault recovery successful")

\* Faulty variant: the recovery is left to complete on a later call and the
\* call returns in Recovery.
RecoverFromFault_ReturnsInRecovery(s, r1, r2) ==
    LET s1 == LogInfo(s, "Attempting fault recovery")
    IN  ResolveFrom(EnterRecovery(s1), 1)

\* Faulty variant: the recovery empties the fault history it has resolved.
RecoverFromFault_ReclaimsSlots(s, r1, r2) ==
    LET s1 == LogInfo(s, "Attempting fault recovery")
        s3 == ResolveFrom(EnterRecovery(s1), 1)
        s4 == SetState(s3, STATE_RUNNING)
        s5 == LogInfo(s4, "Fault recovery successful")
    IN  [s5 EXCEPT !.m.fault_history = <<>>,
                   !.m.health.cpu_usage_percent = 15 + r1,
                   !.m.health.memory_usage_percent = 25 + r2]

\* Faulty variant: the recovery restarts the throttle and the generators.
RecoverFromFault_RestartsThrottle(s, r1, r2) ==
    LET s1 == LogInfo(s, "Attempting fault recovery")
        s3 == ResolveFrom(EnterRecovery(s1), 1)
        s4 == SetState(s3, STATE_RUNNING)
        s5 == LogInfo(s4, "Fault recovery successful")
    IN  [s5 EXCEPT !.st.fault_call_count = 0,
                   !.st.last_fault_trigger = 0,
                   !.st.effect_count = [k \in FaultKinds |-> 0],
                   !.m.health.cpu_usage_percent = 15 + r1,
                   !.m.health.memory_usage_percent = 25 + r2]

\* Lines 474-503. r1 and r2 are the draws rand() % 20 and rand() % 25.
RecoverFromFault(s, r1, r2) ==
    LET s1 == LogInfo(s, "Attempting fault recovery")
        s3 == ResolveFrom(EnterRecovery(s1), 1)
        s4 == SetState(s3, STATE_RUNNING)
        s5 == LogInfo(s4, "Fault recovery successful")
    IN  [s5 EXCEPT !.m.health.cpu_usage_percent = 15 + r1,
                   !.m.health.memory_usage_percent = 25 + r2]

\* Faulty variant: outside Fault the call still switches the injection off.
attempt_fault_recovery_ClearsInjection(s, r1, r2) ==
    IF s.m.health.current_state # STATE_FAULT
    THEN LogInfo([s EXCEPT !.m.fault_injection_enabled = FALSE,
                           !.m.active_fault = FAULT_NONE],
                 "No faults to recover from")
    ELSE RecoverFromFault(s, r1, r2)

\* Faulty variant: the guard on STATE_FAULT is missing.
attempt_fault_recovery_Unguarded(s, r1, r2) == RecoverFromFault(s, r1, r2)

attempt_fault_recovery(s, r1, r2) ==
    IF s.m.health.current_state # STATE_FAULT
    THEN LogInfo(s, "No faults to recover from")
    ELSE RecoverFromFault(s, r1, r2)

\* The seconds the call spends in usleep.
RecoveryDelay(m) ==
    IF m.health.current_state # STATE_FAULT THEN 0 ELSE RECOVERY_DELAY_S

----------------------------------------------------------------------------
\* The operator's key, main lines 271-293.

KeyNone ==
    /\ "none" \in env.keys
    /\ Commit(Begin("no_key"))
    /\ UNCHANGED <<simulation_running, now, twin>>

KeyQuit ==
    /\ "q" \in env.keys
    /\ CommitObserved(LogInfo(Begin("quit"), "User requested system shutdown"),
                      [observed EXCEPT !.quit_state = monitor.health.current_state])
    /\ CommitTwin(LogInfo(BeginTwin("quit"), "User requested system shutdown"))
    /\ simulation_running' = FALSE
    /\ UNCHANGED now

KeyInject ==
    /\ "f" \in env.keys
    /\ \E r \in env.kinds :
         /\ Commit(inject_fault([Begin("inject") EXCEPT !.t.arg = (r % 5) + 1],
                                (r % 5) + 1))
         /\ CommitTwin(inject_fault(BeginTwin("inject"), (r % 5) + 1))
    /\ UNCHANGED <<simulation_running, now>>

KeyRecover ==
    /\ "r" \in env.keys
    /\ \E r \in RandPair(20, 25) :
         /\ Commit(attempt_fault_recovery(Begin("recover"), r[1], r[2]))
         /\ CommitTwin(attempt_fault_recovery(BeginTwin("recover"), r[1], r[2]))
    /\ now' = now + RecoveryDelay(monitor)
    /\ UNCHANGED simulation_running

\* display_debug_info only prints.
KeyDisplay ==
    /\ "d" \in env.keys
    /\ Commit([Begin("display") EXCEPT
                 !.t.console = <<[tag |-> "Debug Information",
                                  message |-> "state, counters, gauges, log, history"]>>])
    /\ UNCHANGED <<simulation_running, now, twin>>

KeyUnknown ==
    /\ "x" \in env.keys
    /\ Commit([Begin("unknown_key") EXCEPT
                 !.t.console = <<[tag |-> "Unknown command",
                                  message |-> "Use: f, r, d, q"]>>])
    /\ UNCHANGED <<simulation_running, now, twin>>

Command ==
    /\ pc = "command"
    /\ (KeyNone \/ KeyQuit \/ KeyInject \/ KeyRecover \/ KeyDisplay \/ KeyUnknown)
    /\ pc' = "simulate"
    /\ UNCHANGED <<iter, sink, exit_code, env>>
    /\ UNCHANGED vfd_vars

----------------------------------------------------------------------------
\* The simulators of normal operation, main lines 296-299.

\* draw is the second rand() % 100 of the call.
simulate_sensor_reading(s, draw) ==
    IF draw < 5
    THEN LET s1 == [s EXCEPT !.st.consecutive_failures = @ + 1]
         IN  IF s1.st.consecutive_failures > 3
             THEN log_message(s1, LOG_ERROR, ERR_SENSOR_FAILURE, "Sensor failure detected")
             ELSE s1
    ELSE [s EXCEPT !.st.consecutive_failures = 0]

simulate_actuator_control(s, command) ==
    IF command < 0 \/ command > 100
    THEN log_message(s, LOG_WARNING, ERR_INVALID_STATE, "Invalid actuator command")
    ELSE s

\* The voltage in hundredths of a volt: 24.0 + (rand() % 200 - 100) / 100.0.
simulate_power_monitoring(s, draw) ==
    LET voltage == 2400 + (draw - 100)
    IN  IF voltage < 2200 \/ voltage > 2600
        THEN log_message(s, LOG_WARNING, ERR_POWER_FLUCTUATION, "Power fluctuation detected")
        ELSE s

Simulate ==
    /\ pc = "simulate"
    /\ \E draw \in env.sensor, r \in RandPair(100, 200) :
         /\ Commit(simulate_power_monitoring(
                     simulate_actuator_control(
                       simulate_sensor_reading(Begin("simulate"), draw), r[1]), r[2]))
         /\ CommitTwin(simulate_power_monitoring(
                         simulate_actuator_control(
                           simulate_sensor_reading(BeginTwin("simulate"), draw),
                           r[1]), r[2]))
    /\ pc' = "sleep"
    /\ UNCHANGED <<simulation_running, now, iter, sink, exit_code, env>>
    /\ UNCHANGED vfd_vars

\* usleep(100000) and the loop condition.
Sleep ==
    /\ pc = "sleep"
    /\ simulation_running => iter + 1 < env.max_iter
    /\ \E d \in env.advance : now' = now + d
    /\ iter' = iter + 1
    /\ pc' = IF simulation_running THEN "health" ELSE "shutdown"
    /\ trace' = NewTrace("sleep", monitor)
    /\ UNCHANGED <<monitor, statics, simulation_running, sink, exit_code, env,
                   observed, twin>>
    /\ UNCHANGED vfd_vars

----------------------------------------------------------------------------
\* debug_shutdown and the end of main

\* save_log_to_file; io_error is what ferror reports after the flush.
save_log_to_file(s, io_error) ==
    IF s.m.log_file = "null"
    THEN log_message(s, LOG_ERROR, ERR_FILE_IO_ERROR, "Log file not available")
    ELSE IF io_error
    THEN log_message(s, LOG_ERROR, ERR_FILE_IO_ERROR, "Error writing to log file")
    ELSE s

\* The condition of ASSERT_STATE, line 357.
ShutdownAssertion(m) == m.health.current_state # STATE_FAULT

\* Lines 345-358, up to and including the logging half of ASSERT_STATE.
debug_shutdown(s, io_error) ==
    LET s1 == LogInfo(s, "Shutting down debug monitoring system")
        s2 == save_log_to_file(s1, io_error)
        s3 == [s2 EXCEPT !.m.log_file = "null"]
    IN  IF ShutdownAssertion(s3.m)
        THEN s3
        ELSE log_message(s3, LOG_CRITICAL, ERR_INVALID_STATE,
                         "System shutdown with unresolved faults")

\* Faulty variant: the file is closed after ASSERT_STATE, which does not
\* return when the assertion fails.
shutdown_sink_ClosesAfterAssertion(sk, s, io_error) ==
    IF s.m.log_file = "null"
    THEN sk
    ELSE IF ShutdownAssertion(debug_shutdown(s, io_error).m)
    THEN close_log_file(write_line(sk, "=== Log Session End ==="))
    ELSE write_line(sk, "=== Log Session End ===")

\* What debug_shutdown, started on s, does to the log file: the fprintf of
\* save_log_to_file (line 515) and the fclose of line 352, both before
\* ASSERT_STATE.
shutdown_sink(sk, s, io_error) ==
    IF s.m.log_file = "null"
    THEN sk
    ELSE close_log_file(write_line(sk, "=== Log Session End ==="))

DebugShutdown ==
    /\ pc = "shutdown"
    /\ \E io_error \in BOOLEAN :
         LET s == debug_shutdown(Begin("shutdown"), io_error)
         IN  /\ Commit(s)
             /\ CommitTwin(debug_shutdown(BeginTwin("shutdown"), io_error))
             /\ sink' = shutdown_sink(sink, Begin("shutdown"), io_error)
             /\ IF ShutdownAssertion(s.m)
                THEN pc' = "exited" /\ exit_code' = 0
                ELSE pc' = "aborted" /\ exit_code' = 134
    /\ UNCHANGED <<simulation_running, now, iter, env>>
    /\ UNCHANGED vfd_vars

Next ==
    \/ DebugInit
    \/ MainStart
    \/ HealthTick
    \/ FaultEffectTick
    \/ Command
    \/ Simulate
    \/ Sleep
    \/ DebugShutdown

Spec == Init /\ [][Next]_vars

----------------------------------------------------------------------------
\* The program late in a long session.
\*
\* The session so far: fopen succeeded; the operator pressed 'f' in the first
\* iteration (rand() chose FAULT_ACTUATOR_FAIL, as on every later 'f'), let the
\* loop run 40 iterations, which log two actuator events (the first escalates
\* to Fault), and pressed 'r'; the watchdog entry was logged during the first
\* of these cycles, in Fault. The operator has completed LateCycles such
\* cycles, has pressed 'f' once more, and 19 iterations have run since: the
\* next fault-effect tick logs the next actuator event.

\* Cycles of inject, two events, recover completed so far.
LateCycles == UINT16_MOD - 1

\* Iterations with injection enabled so far: fault_call_count.
LateTicks == 2 * THROTTLE_DIVISOR * EFFECT_DIVISOR * LateCycles
             + THROTTLE_DIVISOR * EFFECT_DIVISOR - 1

\* time(NULL) now: a cycle takes 4 s of iterations and 2 s of recovery.
LateTime == StartTime + 6 * LateCycles + 1

EntryOf(level, error, message) ==
    [level |-> level, error_code |-> error, message |-> message]

ActuatorEntry ==
    EntryOf(EffectLevel(FAULT_ACTUATOR_FAIL), EffectError(FAULT_ACTUATOR_FAIL),
            EffectMessage(FAULT_ACTUATOR_FAIL))

InjectEntry == EntryOf(LOG_WARNING, ERR_NONE, "Fault injection activated")

\* The entries of one cycle once every record of the history is resolved.
LateCycleEntries ==
    <<InjectEntry,
      ActuatorEntry,
      EntryOf(LOG_WARNING, ERR_ACTUATOR_STUCK, "System entered fault state"),
      ActuatorEntry,
      EntryOf(LOG_INFO, ERR_NONE, "Attempting fault recovery"),
      EntryOf(LOG_INFO, ERR_NONE, "Fault recovery successful")>>

\* Every entry appended so far, oldest first, as far back as the buffer reaches.
LateEntries == LateCycleEntries \o LateCycleEntries \o <<InjectEntry>>

LateMonitor ==
    [log_buffer |-> SubSeq(LateEntries, Len(LateEntries) - MAX_LOG_ENTRIES + 1,
                           Len(LateEntries)),
     fault_history |-> [i \in 1..MAX_FAULT_HISTORY |->
                          [NewRecord(FAULT_ACTUATOR_FAIL) EXCEPT !.resolved = TRUE]],
     health |-> [current_state |-> STATE_RUNNING,
                 uptime_seconds |-> 0,
                 \* one watchdog entry and two actuator events a cycle
                 fault_count |-> (1 + 2 * LateCycles) % UINT16_MOD,
                 recovery_count |-> LateCycles % UINT16_MOD,
                 cpu_usage_percent |-> 10,
                 memory_usage_percent |-> 20,
                 last_health_check |-> LateTime],
     log_file |-> "open",
     fault_injection_enabled |-> TRUE,
     active_fault |-> FAULT_ACTUATOR_FAIL]

LateStatics ==
    [fault_call_count |-> LateTicks,
     last_fault_trigger |-> LateTicks - (LateTicks % THROTTLE_DIVISOR),
     last_watchdog_feed |-> LateTime,
     watchdog_logged |-> TRUE,
     consecutive_failures |-> 0,
     effect_count |-> [k \in FaultKinds |->
                         IF k = FAULT_ACTUATOR_FAIL
                         THEN LateTicks \div THROTTLE_DIVISOR ELSE 0]]

\* Every key is possible; the clock may stand or advance one second.
EnvLate == [name |-> "late",
            keys |-> {"none", "q", "f", "r", "d", "x"},
            kinds |-> {1},
            advance |-> {0, 1},
            sensor |-> {5},
            max_iter |-> MaxIter]

InitLate ==
    /\ env = EnvLate
    /\ monitor = LateMonitor
    /\ statics = LateStatics
    /\ pc = "health"
    /\ simulation_running = TRUE
    /\ now = LateTime
    /\ iter = 0
    /\ sink = [opens |-> 1, lines |-> <<>>, closes |-> 0, misuse |-> 0]
    /\ exit_code = -1
    /\ trace = NewTrace("sleep", LateMonitor)
    /\ observed = [first_tick |-> StartTime,
                   watchdog_at |-> <<StartTime + WATCHDOG_TIMEOUT_S>>,
                   enabled_ticks |-> LateTicks,
                   quit_state |-> STATE_INIT,
                   \* 3 at start, 6 a cycle, the watchdog entry, one per record
                   \* resolved, the last injection
                   appends |-> 3 + 6 * LateCycles + 1 + MAX_FAULT_HISTORY + 1,
                   \* two actuator events a cycle and the watchdog entry
                   errors |-> 2 * LateCycles + 1,
                   \* ActuatorFail all along; the last event was 19 ticks ago
                   run |-> [kind |-> FAULT_ACTUATOR_FAIL,
                            since |-> LateTicks % (THROTTLE_DIVISOR * EFFECT_DIVISOR),
                            seen |-> 2 * LateCycles]]
    /\ twin = [m |-> [LateMonitor EXCEPT !.log_file = "null"], st |-> LateStatics]
    /\ VfdConstructed

\* The loop of main and the shutdown.
NextLate ==
    \/ HealthTick
    \/ FaultEffectTick
    \/ Command
    \/ Simulate
    \/ Sleep
    \/ DebugShutdown

SpecLate == InitLate /\ [][NextLate]_vars

----------------------------------------------------------------------------
\* The program with every effect generator one call short of its event.
\*
\* The session so far: fopen succeeded; the operator pressed 'f' in the first
\* iteration and again every ArmingTicks iterations, five times in all, and
\* rand() chose the five kinds in the order of fault_type_t; ArmingTicks
\* iterations have run since the last 'f'. The generator of each kind has been
\* called EFFECT_DIVISOR - 1 times and has logged nothing. The watchdog entry
\* was logged between the fourth and the fifth 'f' and took the state to
\* Fault.

\* Iterations between two presses of 'f'.
ArmingTicks == THROTTLE_DIVISOR * (EFFECT_DIVISOR - 1)

\* time(NULL) now: the iterations so far took 8 seconds.
ArmedTime == StartTime + WATCHDOG_TIMEOUT_S + 3

WatchdogEntry ==
    EntryOf(LOG_CRITICAL, ERR_WATCHDOG_TIMEOUT, "Watchdog timeout detected")

\* Every entry appended so far, oldest first.
ArmedEntries ==
    <<EntryOf(LOG_INFO, ERR_NONE, "Debug monitoring system initialized"),
      EntryOf(LOG_INFO, ERR_NONE, "System transitioned to RUNNING state"),
      EntryOf(LOG_INFO, ERR_NONE, "System initialization started"),
      InjectEntry, InjectEntry, InjectEntry, InjectEntry,
      WatchdogEntry,
      EntryOf(LOG_WARNING, ERR_WATCHDOG_TIMEOUT, "System entered fault state"),
      InjectEntry>>

ArmedMonitor ==
    [log_buffer |-> SubSeq(ArmedEntries, Len(ArmedEntries) - MAX_LOG_ENTRIES + 1,
                           Len(ArmedEntries)),
     fault_history |-> [i \in 1..MAX_FAULT_HISTORY |-> NewRecord(i)],
     health |-> [current_state |-> STATE_FAULT,
                 uptime_seconds |-> 0,
                 fault_count |-> 1,
                 recovery_count |-> 0,
                 cpu_usage_percent |-> 10,
                 memory_usage_percent |-> 20,
                 last_health_check |-> ArmedTime],
     log_file |-> "open",
     fault_injection_enabled |-> TRUE,
     active_fault |-> FAULT_MEMORY_LEAK]

ArmedStatics ==
    [fault_call_count |-> Cardinality(FaultKinds) * ArmingTicks,
     last_fault_trigger |-> Cardinality(FaultKinds) * ArmingTicks,
     last_watchdog_feed |-> StartTime + WATCHDOG_TIMEOUT_S,
     watchdog_logged |-> TRUE,
     consecutive_failures |-> 0,
     effect_count |-> [k \in FaultKinds |-> EFFECT_DIVISOR - 1]]

\* The operator injects any kind, recovers or quits; the clock stands.
EnvArmed == [name |-> "armed",
             keys |-> {"none", "q", "f", "r"},
             kinds |-> {0, 1, 2, 3, 4},
             advance |-> {0},
             sensor |-> {5},
             max_iter |-> MaxIter + 1]

InitArmed ==
    /\ env = EnvArmed
    /\ monitor = ArmedMonitor
    /\ statics = ArmedStatics
    /\ pc = "health"
    /\ simulation_running = TRUE
    /\ now = ArmedTime
    /\ iter = 0
    /\ sink = [opens |-> 1, lines |-> <<>>, closes |-> 0, misuse |-> 0]
    /\ exit_code = -1
    /\ trace = NewTrace("sleep", ArmedMonitor)
    /\ observed = [first_tick |-> StartTime,
                   watchdog_at |-> <<StartTime + WATCHDOG_TIMEOUT_S>>,
                   enabled_ticks |-> Cardinality(FaultKinds) * ArmingTicks,
                   quit_state |-> STATE_INIT,
                   appends |-> Len(ArmedEntries),
                   errors |-> 1,
                   \* MemoryLeak was injected last
                   run |-> [kind |-> FAULT_MEMORY_LEAK, since |-> ArmingTicks, seen |-> 0]]
    /\ twin = [m |-> [ArmedMonitor EXCEPT !.log_file = "null"], st |-> ArmedStatics]
    /\ VfdConstructed

SpecArmed == InitArmed /\ [][NextLate]_vars

----------------------------------------------------------------------------
\* The VFD emulator's main loop, lines 147-178: at most one key, then
\* vfd_update.

\* The key is consumed and leaves the drive as v.
VfdStep(key, frequency, v) ==
    /\ vfd' = v
    /\ vfd_last' = [key |-> key,
                    frequency |-> frequency,
                    rejected |-> IF vfd.state # VFD_STATE_STOPPING
                                 THEN IF v.state = VFD_STATE_STOPPING
                                      THEN {}
                                      ELSE vfd_last.rejected
                                 ELSE IF key \in {"s", "x", "f"} /\ v = vfd
                                 THEN vfd_last.rejected \cup {key}
                                 ELSE vfd_last.rejected]
    /\ vfd_pc' = "update"
    /\ UNCHANGED monitor_vars

\* _kbhit() is false.
VfdNoKey ==
    /\ vfd_pc = "command"
    /\ VfdStep("none", 0, vfd)

VfdQuit ==
    /\ vfd_pc = "command"
    /\ vfd_pc' = "exit"
    /\ vfd_last' = [vfd_last EXCEPT !.key = "q", !.frequency = 0]
    /\ UNCHANGED <<vfd, monitor_vars>>

VfdStart ==
    /\ vfd_pc = "command"
    /\ VfdStep("s", 0, vfd_start(vfd))

VfdStop ==
    /\ vfd_pc = "command"
    /\ VfdStep("x", 0, vfd_stop(vfd))

\* Lines 158-166: the frequency is handed on when it is in range.
VfdSetFrequency ==
    /\ vfd_pc = "command"
    /\ \E target_freq \in FrequencyInputs :
         VfdStep("f", target_freq,
                 IF target_freq >= MIN_FREQUENCY /\ target_freq <= MAX_FREQUENCY
                 THEN vfd_set_frequency(vfd, target_freq)
                 ELSE vfd)

VfdInvalidCommand ==
    /\ vfd_pc = "command"
    /\ VfdStep("?", 0, vfd)

VfdUpdate ==
    /\ vfd_pc = "update"
    /\ vfd' = vfd_update(vfd, SIMULATION_STEP)
    /\ vfd_last' = [vfd_last EXCEPT !.key = "update", !.frequency = 0]
    /\ vfd_pc' = "command"
    /\ UNCHANGED monitor_vars

InitVfd == Init /\ env = EnvQuiet

NextVfd ==
    \/ VfdNoKey
    \/ VfdQuit
    \/ VfdStart
    \/ VfdStop
    \/ VfdSetFrequency
    \/ VfdInvalidCommand
    \/ VfdUpdate

\* The loop is sequential and neither _kbhit nor usleep blocks: while the
\* process runs, its next step is taken.
SpecVfd == InitVfd /\ [][NextVfd]_vars /\ WF_vars(NextVfd)


----------------------------------------------------------------------------
\* Properties

current_state == monitor.health.current_state

\* The last n elements of seq (all of it when it is shorter).
LastOf(seq, n) ==
    IF Len(seq) <= n THEN seq ELSE SubSeq(seq, Len(seq) - n + 1, Len(seq))

\* The entries a step appended, in the order of the calls.
EntriesOf(appended) == [i \in 1..Len(appended) |-> appended[i].entry]

\* The calls among appended that satisfy P.
CallsWhere(appended, P(_)) == {i \in 1..Len(appended) : P(appended[i])}

IsEscalatingCall(a) == a.entry.level >= LOG_ERROR /\ a.state = STATE_RUNNING

HasMessage(appended, message) ==
    \E i \in 1..Len(appended) : appended[i].entry.message = message

\* C1: a step moves current_state to Fault if and only if that step made a
\* log_message call of severity Error or Critical while the state was Running.
C1_FaultIffErrorWhileRunning ==
    [][ (current_state' = STATE_FAULT /\ current_state # STATE_FAULT)
        <=> CallsWhere(trace'.appended, IsEscalatingCall) # {} ]_vars

\* An Error or Critical entry was appended in Running and the state is Fault.
C1_Witness ==
    /\ current_state = STATE_FAULT
    /\ trace.before.current_state = STATE_RUNNING
    /\ CallsWhere(trace.appended, IsEscalatingCall) # {}

\* C2: attempt_fault_recovery called in Fault ends in Running with
\* recovery_count one higher, every record resolved and the records otherwise
\* as they were.
C2_RecoveryFromFault ==
    [][ (trace'.op = "recover" /\ current_state = STATE_FAULT)
        => /\ current_state' = STATE_RUNNING
           /\ monitor'.health.recovery_count = monitor.health.recovery_count + 1
           /\ fault_count(monitor') = fault_count(monitor)
           /\ \A i \in 1..fault_count(monitor) :
                monitor'.fault_history[i] =
                  [monitor.fault_history[i] EXCEPT !.resolved = TRUE] ]_vars

\* A recovery from Fault that found a resolved record and, after it, an
\* unresolved one.
C2_Witness ==
    /\ trace.op = "recover"
    /\ trace.before.current_state = STATE_FAULT
    /\ current_state = STATE_RUNNING
    /\ monitor.health.recovery_count = 2
    /\ fault_count(monitor) = 2
    /\ Cardinality(CallsWhere(trace.appended,
         LAMBDA a : a.entry.message = "Fault resolved in recovery attempt")) = 1

\* C3 as claimed: attempt_fault_recovery outside Fault changes no field of the
\* monitor.
C3_NoFieldChanges ==
    [][ (trace'.op = "recover" /\ current_state # STATE_FAULT)
        => monitor' = monitor ]_vars

NoFaultsEntry ==
    [level |-> LOG_INFO, error_code |-> ERR_NONE, message |-> "No faults to recover from"]

\* C3 as amended: attempt_fault_recovery outside Fault appends one Info entry to
\* the event log (evicting the oldest entry of a full buffer) and changes no
\* other field of the monitor, no static and not the clock.
C3_OnlyLogChanges ==
    [][ (trace'.op = "recover" /\ current_state # STATE_FAULT)
        => /\ monitor' =
                [monitor EXCEPT
                   !.log_buffer = LastOf(Append(@, NoFaultsEntry), MAX_LOG_ENTRIES)]
           /\ statics' = statics
           /\ now' = now ]_vars

\* A recovery attempt outside Fault, with an unresolved record in the history.
C3_Witness ==
    /\ trace.op = "recover"
    /\ trace.before.current_state = STATE_RUNNING
    /\ HasMessage(trace.appended, "No faults to recover from")
    /\ \E i \in 1..fault_count(monitor) : ~monitor.fault_history[i].resolved

\* C4: log_count stays between 0 and the capacity of the buffer.
C4_LogCountBounded ==
    /\ log_count(monitor) >= 0
    /\ log_count(monitor) <= MAX_LOG_ENTRIES

\* An escalating append, with its nested append, was made on a full buffer.
C4_Witness ==
    /\ log_count(monitor) = MAX_LOG_ENTRIES
    /\ \E i \in CallsWhere(trace.appended, IsEscalatingCall) :
         /\ trace.appended[i].count = MAX_LOG_ENTRIES
         /\ i < Len(trace.appended)
         /\ trace.appended[i + 1].entry.message = "System entered fault state"

\* C5: after every step the buffer holds the most recent entries, in append
\* order: the buffer before the step followed by the entries the step appended,
\* cut to the last MAX_LOG_ENTRIES; and log_count is the number of entries
\* appended so far or the capacity, whichever is smaller.
C5_FifoEviction ==
    /\ [][ monitor'.log_buffer =
             LastOf(monitor.log_buffer \o EntriesOf(trace'.appended),
                    MAX_LOG_ENTRIES) ]_vars
    /\ [](log_count(monitor) =
            IF observed.appends < MAX_LOG_ENTRIES
            THEN observed.appends ELSE MAX_LOG_ENTRIES)

\* More entries were appended than the buffer holds, the last of them by a
\* single append on a full buffer.
C5_Witness ==
    /\ observed.appends > MAX_LOG_ENTRIES + 1
    /\ Len(trace.appended) = 1
    /\ trace.appended[1].count = MAX_LOG_ENTRIES
    /\ monitor.log_buffer[MAX_LOG_ENTRIES] = trace.appended[1].entry

\* C6: the fault history holds between 0 and MAX_FAULT_HISTORY records, and
\* an injection into a full history enables injection and sets active_fault to
\* the injected kind without adding or altering a record.
C6_HistorySaturates ==
    /\ [](fault_count(monitor) >= 0 /\ fault_count(monitor) <= MAX_FAULT_HISTORY)
    /\ [][ (trace'.op = "inject" /\ fault_count(monitor) = MAX_FAULT_HISTORY)
           => /\ monitor'.fault_injection_enabled
              /\ monitor'.active_fault = trace'.arg
              /\ monitor'.fault_history = monitor.fault_history ]_vars

\* An injection into a full history, of a kind other than the active one.
C6_Witness ==
    /\ trace.op = "inject"
    /\ trace.before.fault_count = MAX_FAULT_HISTORY
    /\ fault_count(monitor) = MAX_FAULT_HISTORY
    /\ monitor.active_fault = trace.arg
    /\ monitor.fault_history[MAX_FAULT_HISTORY].fault_type # trace.arg

\* C7: when the shutdown the operator asked for has run, the state machine is
\* in Shutdown.
C7_ShutdownReached ==
    pc \in {"exited", "aborted"} => current_state = STATE_SHUTDOWN

\* C8: the process aborts during shutdown exactly when the state was Fault at
\* the time the operator asked for the shutdown; otherwise it exits with code 0.
C8_AbortIffFault ==
    pc \in {"exited", "aborted"}
    => /\ (pc = "aborted") <=> (observed.quit_state = STATE_FAULT)
       /\ (pc = "exited") => exit_code = 0

\* C9: when the health ticks, one per second, span 12 seconds from the first,
\* two watchdog entries have been appended, at 5 and at 10 seconds.
C9_TwoWatchdogEntries ==
    (/\ env.name = "quiet"
     /\ trace.op = "health_tick"
     /\ now - observed.first_tick = 12)
    => observed.watchdog_at = <<observed.first_tick + WATCHDOG_TIMEOUT_S,
                                observed.first_tick + 2 * WATCHDOG_TIMEOUT_S>>

IsActuatorStuck(a) ==
    a.entry.level = LOG_ERROR /\ a.entry.error_code = ERR_ACTUATOR_STUCK

\* No generator other than that of ActuatorFail has run.
OnlyActuatorFail(st) ==
    \A k \in FaultKinds \ {FAULT_ACTUATOR_FAIL} : st.effect_count[k] = 0

\* C10: up to the call on which the actuator counter reaches 5, a step appends
\* an Error/ActuatorStuck entry only if it is that call, which appends exactly
\* one; and when no other generator has run, that call is made on the 20th
\* tick on which injection is enabled.
C10_FirstActuatorEvent ==
    [][ statics'.effect_count[FAULT_ACTUATOR_FAIL] <= EFFECT_DIVISOR
        => LET reaches == /\ trace'.op = "effect_tick"
                          /\ statics.effect_count[FAULT_ACTUATOR_FAIL] = EFFECT_DIVISOR - 1
                          /\ statics'.effect_count[FAULT_ACTUATOR_FAIL] = EFFECT_DIVISOR
           IN  /\ Cardinality(CallsWhere(trace'.appended, IsActuatorStuck))
                    = IF reaches THEN 1 ELSE 0
               /\ (reaches /\ OnlyActuatorFail(statics'))
                    => observed'.enabled_ticks = THROTTLE_DIVISOR * EFFECT_DIVISOR
       ]_vars

\* The 20th tick after inject(ActuatorFail) appended the event.
C10_Witness ==
    /\ trace.op = "effect_tick"
    /\ statics.effect_count[FAULT_ACTUATOR_FAIL] = EFFECT_DIVISOR
    /\ observed.enabled_ticks = 20
    /\ Cardinality(CallsWhere(trace.appended, IsActuatorStuck)) = 1
    /\ trace.before.current_state = STATE_RUNNING
    /\ current_state = STATE_FAULT

IsCriticalWhileRunning(a) == a.entry.level = LOG_CRITICAL /\ a.state = STATE_RUNNING

IsErrorOrHigher(a) == a.entry.level >= LOG_ERROR

\* The Warning entry log_message appends when it escalates on an entry of
\* error kind error.
EnteredFaultEntry(error) ==
    [level |-> LOG_WARNING, error_code |-> error,
     message |-> "System entered fault state"]

\* log_count when the call after call i of appended is about to store its
\* entry, or log_count of m when call i is the last.
CountAfterCall(appended, i, m) ==
    IF i < Len(appended) THEN appended[i + 1].count ELSE log_count(m)

\* What C11 says of everything but log_count: in a step that appends a Critical
\* entry while Running, the state becomes Fault, that append is followed by
\* exactly one 'entered fault state' Warning, and the health fault_count is
\* one higher (it is a 16-bit counter) when this was the step's only entry of
\* severity Error or higher.
CriticalEscalates(i) ==
    /\ current_state' = STATE_FAULT
    /\ i < Len(trace'.appended)
    /\ trace'.appended[i + 1].entry = EnteredFaultEntry(trace'.appended[i].entry.error_code)
    /\ trace'.appended[i + 1].state = STATE_FAULT
    /\ Cardinality(CallsWhere(trace'.appended,
         LAMBDA a : a.entry.message = "System entered fault state")) = 1
    /\ Cardinality(CallsWhere(trace'.appended, IsErrorOrHigher)) = 1
         => monitor'.health.fault_count =
              (monitor.health.fault_count + 1) % UINT16_MOD

\* C11 as claimed: an append of a Critical entry while Running makes the state
\* Fault, adds 1 to the health fault_count, appends one more entry, the
\* Warning 'System entered fault state', and log_count is 2 higher after the
\* call than before it.
C11_LogCountUpByTwo ==
    [][ \A i \in CallsWhere(trace'.appended, IsCriticalWhileRunning) :
          /\ CriticalEscalates(i)
          /\ CountAfterCall(trace'.appended, i + 1, monitor')
               = trace'.appended[i].count + 2 ]_vars

\* C11 as amended: the same, but log_count after the call is 2 higher only
\* when two slots were free: it never passes the capacity of the buffer.
C11_TwoEntriesAppended ==
    [][ \A i \in CallsWhere(trace'.appended, IsCriticalWhileRunning) :
          /\ CriticalEscalates(i)
          /\ CountAfterCall(trace'.appended, i + 1, monitor')
               = IF trace'.appended[i].count + 2 <= MAX_LOG_ENTRIES
                 THEN trace'.appended[i].count + 2
                 ELSE MAX_LOG_ENTRIES
          /\ LastOf(monitor'.log_buffer, 2) =
               <<trace'.appended[i].entry, trace'.appended[i + 1].entry>> ]_vars

\* The watchdog's Critical entry was appended in Running with two slots free:
\* log_count went from 3 to 5 and the health fault_count from 0 to 1.
C11_Witness ==
    /\ trace.op = "health_tick"
    /\ CallsWhere(trace.appended, IsCriticalWhileRunning) = {1}
    /\ Len(trace.appended) = 2
    /\ trace.before.log_count = MAX_LOG_ENTRIES - 2
    /\ log_count(monitor) = MAX_LOG_ENTRIES
    /\ monitor.health.fault_count = 1
    /\ current_state = STATE_FAULT

\* The states the state machine passes through in a step: the state before it
\* followed by every value the step assigns to current_state.
StatePath == <<current_state>> \o trace'.states

\* C12: the state machine enters Recovery only from Fault and leaves it only
\* to Running, within the same operation: no operation ends in Recovery, and
\* attempt_fault_recovery called in Fault ends in Running.
C12_RecoveryOnlyFromFaultToRunning ==
    [][ /\ \A i \in 2..Len(StatePath) :
             /\ StatePath[i] = STATE_RECOVERY => StatePath[i - 1] = STATE_FAULT
             /\ StatePath[i - 1] = STATE_RECOVERY => StatePath[i] = STATE_RUNNING
        /\ current_state' # STATE_RECOVERY
        /\ current_state' = StatePath[Len(StatePath)]
        /\ (trace'.op = "recover" /\ current_state = STATE_FAULT)
             => /\ trace'.states = <<STATE_RECOVERY, STATE_RUNNING>>
                /\ current_state' = STATE_RUNNING ]_vars

\* A recovery from Fault passed through Recovery, logged a resolved record
\* while there, and ended in Running.
C12_Witness ==
    /\ trace.op = "recover"
    /\ trace.before.current_state = STATE_FAULT
    /\ trace.states = <<STATE_RECOVERY, STATE_RUNNING>>
    /\ \E i \in 1..Len(trace.appended) : trace.appended[i].state = STATE_RECOVERY
    /\ current_state = STATE_RUNNING

\* C13: a record of the fault history that is resolved stays in the history
\* and stays resolved through every operation.
C13_ResolvedIsMonotonic ==
    [][ \A i \in 1..fault_count(monitor) :
          monitor.fault_history[i].resolved
          => /\ i <= fault_count(monitor')
             /\ monitor'.fault_history[i].resolved ]_vars

\* An injection into a full history all of whose records a recovery had
\* resolved.
C13_Witness ==
    /\ trace.op = "inject"
    /\ trace.before.fault_count = MAX_FAULT_HISTORY
    /\ fault_count(monitor) = MAX_FAULT_HISTORY
    /\ monitor.health.recovery_count > 0
    /\ \A i \in 1..MAX_FAULT_HISTORY : monitor.fault_history[i].resolved

\* inject_fault has not been called: its first call stores a record (the
\* history has room) and no record is ever removed.
NeverInjected == fault_count(monitor) = 0

\* C14: as long as inject_fault has not been called, the steps of the main loop
\* (health tick with its watchdog, fault-effect tick, simulators) append no
\* entry of severity Error or higher and the state is not Fault.
C14_NoFaultWithoutInjection ==
    (NeverInjected /\ pc \in {"health", "effect", "command", "simulate", "sleep"})
    => /\ current_state # STATE_FAULT
       /\ trace.op \in {"health_tick", "effect_tick", "simulate"}
            => CallsWhere(trace.appended, IsErrorOrHigher) = {}

InitEntries ==
    <<[level |-> LOG_INFO, error_code |-> ERR_NONE,
       message |-> "Debug monitoring system initialized"],
      [level |-> LOG_INFO, error_code |-> ERR_NONE,
       message |-> "System transitioned to RUNNING state"]>>

\* C15: whichever way fopen went, debug_init ends in Running with its two Info
\* entries in the buffer; and from there until debug_shutdown runs, the run in
\* which fopen failed and the run in which it succeeded, given the same keys,
\* draws and clock readings, have the same monitor (state, counters, gauges,
\* log buffer, fault history, injection flag) and the same statics: they differ
\* in log_file only.
C15_SinkFailureNonFatal ==
    /\ trace.op = "debug_init"
         => \A m \in {monitor, twin.m} :
              /\ m.health.current_state = STATE_RUNNING
              /\ m.log_buffer = InitEntries
    /\ pc \notin {"init", "exited", "aborted"}
         => /\ twin.m.log_file # monitor.log_file
            /\ [twin.m EXCEPT !.log_file = monitor.log_file] = monitor
            /\ twin.st = statics

\* fopen failed, and the run has since injected a fault, escalated and
\* recovered from Fault.
C15_Witness ==
    /\ monitor.log_file = "null"
    /\ twin.m.log_file = "open"
    /\ pc = "simulate"
    /\ trace.op = "recover"
    /\ trace.before.current_state = STATE_FAULT
    /\ fault_count(monitor) > 0
    /\ twin.m.health.recovery_count = 1

\* C16: the log file is opened at most once; once opened it stays open until
\* debug_shutdown has run and is closed exactly once when it has, whether the
\* process exits or aborts on the shutdown assertion; and no operation is made
\* on it when it is not open (no second fclose, no write after fclose).
C16_SinkReleasedOnce ==
    /\ sink.opens <= 1
    /\ sink.misuse = 0
    /\ (monitor.log_file = "open") <=> SinkIsOpen(sink)
    /\ pc \in {"exited", "aborted"} => sink.closes = sink.opens
    /\ pc \notin {"exited", "aborted"} => sink.closes = 0

\* The process aborted on the shutdown assertion, and the file it had opened
\* is closed.
C16_Witness ==
    /\ pc = "aborted"
    /\ sink.opens = 1
    /\ sink.closes = 1
    /\ sink.lines = <<"=== Log Session End ===">>

\* C17: when a run with an open log file has ended, the file holds the
\* session-start marker, then one line per entry appended in the run, in the
\* order of the appends, then the session-end marker.
C17_SessionBoundsEntries ==
    (pc \in {"exited", "aborted"} /\ sink.opens = 1)
    => LET n == Len(sink.lines)
       IN  /\ n = observed.appends + 2
           /\ sink.lines[1] = "=== Log Session Start ==="
           /\ sink.lines[n] = "=== Log Session End ==="
           /\ \A i \in 1..log_count(monitor) :
                sink.lines[n - 1 - log_count(monitor) + i] = monitor.log_buffer[i].message

\* C18: no operation leaves the health fault_count or recovery_count smaller
\* than it found it.
C18_CountersMonotonic ==
    [][ /\ monitor'.health.fault_count >= monitor.health.fault_count
        /\ monitor'.health.recovery_count >= monitor.health.recovery_count ]_vars

\* C19: uptime_seconds after a health tick is at least what it was after the
\* tick before (no other operation writes it after debug_init).
C19_UptimeNonDecreasing ==
    [][ trace'.op = "health_tick"
        => monitor'.health.uptime_seconds >= monitor.health.uptime_seconds ]_vars

InRange(x, low, high) == low <= x /\ x < high

\* C20: both gauges are always within [0,100]; after a health tick cpu is in
\* [10,50) and memory in [20,80); after a recovery from Fault cpu is in [15,35)
\* and memory in [25,50).
C20_GaugesInRange ==
    LET h == monitor.health
    IN  /\ h.cpu_usage_percent >= 0 /\ h.cpu_usage_percent <= 100
        /\ h.memory_usage_percent >= 0 /\ h.memory_usage_percent <= 100
        /\ trace.op = "health_tick"
             => /\ InRange(h.cpu_usage_percent, 10, 50)
                /\ InRange(h.memory_usage_percent, 20, 80)
        /\ (trace.op = "recover" /\ trace.before.current_state = STATE_FAULT)
             => /\ InRange(h.cpu_usage_percent, 15, 35)
                /\ InRange(h.memory_usage_percent, 25, 50)

\* A recovery from Fault drew the largest values of rand() % 20 and rand() % 25,
\* after a health tick that had drawn the largest of rand() % 40 and rand() % 60.
C20_Witness ==
    /\ trace.op = "recover"
    /\ trace.before.current_state = STATE_FAULT
    /\ monitor.health.cpu_usage_percent = 34
    /\ monitor.health.memory_usage_percent = 49

\* C21: inject_fault, in whatever state, enables injection, makes its argument
\* the active fault, appends exactly one entry, of severity Warning, and leaves
\* current_state and the health fault_count as they were.
C21_InjectActivates ==
    [][ trace'.op = "inject"
        => /\ monitor'.fault_injection_enabled
           /\ monitor'.active_fault = trace'.arg
           /\ trace'.arg \in FaultKinds
           /\ Len(trace'.appended) = 1
           /\ trace'.appended[1].entry.level = LOG_WARNING
           /\ current_state' = current_state
           /\ monitor'.health.fault_count = monitor.health.fault_count ]_vars

\* An injection in Fault replaced the kind injected before by another.
C21_Witness ==
    /\ trace.op = "inject"
    /\ trace.before.current_state = STATE_FAULT
    /\ current_state = STATE_FAULT
    /\ fault_count(monitor) = 2
    /\ monitor.fault_history[1].fault_type # trace.arg
    /\ monitor.fault_history[1].resolved = FALSE
    /\ monitor.active_fault = trace.arg

\* Severity and error kind of the event of each fault kind, as C22 lists them.
EventOfKind(kind) ==
    CASE kind = FAULT_SENSOR_NOISE -> <<LOG_WARNING, ERR_SENSOR_FAILURE>>
      [] kind = FAULT_ACTUATOR_FAIL -> <<LOG_ERROR, ERR_ACTUATOR_STUCK>>
      [] kind = FAULT_COMM_BREAK -> <<LOG_ERROR, ERR_COMMUNICATION_LOST>>
      [] kind = FAULT_POWER_SPIKE -> <<LOG_WARNING, ERR_POWER_FLUCTUATION>>
      [] kind = FAULT_MEMORY_LEAK -> <<LOG_CRITICAL, ERR_MEMORY_CORRUPTION>>

\* C22: the event a fault-effect tick appends has the severity and the error
\* kind listed for the fault kind that is active on that tick; the only other
\* entry such a tick appends is the 'entered fault state' Warning of an
\* escalation.
C22_EventOfActiveKind ==
    [][ (trace'.op = "effect_tick" /\ trace'.appended # <<>>)
        => LET e == trace'.appended[1].entry
           IN  /\ monitor.active_fault \in FaultKinds
               /\ monitor'.active_fault = monitor.active_fault
               /\ <<e.level, e.error_code>> = EventOfKind(monitor.active_fault)
               /\ Len(trace'.appended) <= 2
               /\ Len(trace'.appended) = 2
                    => trace'.appended[2].entry = EnteredFaultEntry(e.error_code) ]_vars

\* The operator replaced MemoryLeak by SensorNoise, and the next event is the
\* Warning/SensorFailure of SensorNoise.
C22_Witness ==
    /\ env.name = "armed"
    /\ trace.op = "effect_tick"
    /\ monitor.active_fault = FAULT_SENSOR_NOISE
    /\ Len(trace.appended) = 1
    /\ trace.appended[1].entry =
         EntryOf(LOG_WARNING, ERR_SENSOR_FAILURE, "Sensor noise simulation active")
    /\ statics.effect_count = [k \in FaultKinds |->
                                 IF k = FAULT_SENSOR_NOISE THEN EFFECT_DIVISOR
                                 ELSE EFFECT_DIVISOR - 1]

\* C23: fault_call_count goes up by one on a fault-effect tick taken with
\* injection enabled and is changed by nothing else; the generator of the
\* active kind is called (its counter goes up by one, the others keep theirs)
\* exactly on the ticks that leave fault_call_count a multiple of 4; and the
\* tick appends the event exactly when the call leaves that counter a multiple
\* of 5.
C23_TwoStageThrottle ==
    [][ LET enabled == trace'.op = "effect_tick" /\ monitor.fault_injection_enabled
            called == enabled /\ statics'.fault_call_count % 4 = 0
            k == monitor.active_fault
        IN  /\ trace'.op # "debug_init"
              => statics'.fault_call_count =
                   statics.fault_call_count + (IF enabled THEN 1 ELSE 0)
            /\ enabled => k \in FaultKinds
            /\ statics'.effect_count =
                 IF called
                 THEN [statics.effect_count EXCEPT ![k] = @ + 1]
                 ELSE statics.effect_count
            /\ trace'.op = "effect_tick"
                 => (trace'.appended # <<>>)
                      <=> (called /\ statics'.effect_count[k] % 5 = 0) ]_vars

\* The generator was called on the 20th enabled tick and appended its event,
\* after calls on the 4th to the 16th that appended nothing.
C23_Witness ==
    /\ env.name = "inject"
    /\ trace.op = "effect_tick"
    /\ statics.fault_call_count = 20
    /\ statics.effect_count[FAULT_ACTUATOR_FAIL] = 5
    /\ observed.enabled_ticks = 20
    /\ Len(trace.appended) = 2
    /\ observed.appends = 6

----------------------------------------------------------------------------
\* C24: the watchdog entries (Critical, ERR_WATCHDOG_TIMEOUT) of a run are at
\* least WATCHDOG_TIMEOUT_S seconds apart, and no health tick appends more
\* than one of them.
C24_WatchdogSpacing ==
    /\ \A i \in 1..Len(observed.watchdog_at) :
         \A j \in 1..Len(observed.watchdog_at) :
           i < j => observed.watchdog_at[j] - observed.watchdog_at[i]
                      >= WATCHDOG_TIMEOUT_S
    /\ trace.op = "health_tick"
         => Cardinality(CallsWhere(trace.appended, IsWatchdogEntry)) <= 1

\* A health tick in the second of the watchdog entry, after the tick that
\* appended it, has appended none.
C24_Witness ==
    /\ trace.op = "health_tick"
    /\ Len(observed.watchdog_at) = 1
    /\ now = observed.watchdog_at[1]
    /\ now = observed.first_tick + WATCHDOG_TIMEOUT_S
    /\ CallsWhere(trace.appended, IsWatchdogEntry) = {}

----------------------------------------------------------------------------
\* The lines log_message has written, and the lines its appends of level
\* Warning or higher call for.
BracketedLines(console) ==
    SelectSeq(console, LAMBDA l : l.tag \in {"WARN", "ERROR", "CRIT"})

LinesOfAppends(appended) ==
    LET w == SelectSeq(appended, LAMBDA a : a.entry.level >= LOG_WARNING)
    IN  [i \in 1..Len(w) |-> ConsoleLine(w[i].entry.level, w[i].entry.message)]

----------------------------------------------------------------------------
\* C26: when debug_init has returned the state is Running, reached from Init by
\* one assignment; the log holds exactly its two Info entries, the first
\* appended in Init and the second in Running; the fault history is empty,
\* injection is disabled with no active fault, and fault_count and
\* recovery_count are 0; no 'entered fault state' entry was appended.
C26_InitEndsRunning ==
    pc = "main_start"
    => /\ trace.op = "debug_init"
       /\ current_state = STATE_RUNNING
       /\ trace.states = <<STATE_INIT, STATE_RUNNING>>
       /\ monitor.log_buffer = InitEntries
       /\ Len(trace.appended) = 2
       /\ trace.appended[1].state = STATE_INIT
       /\ trace.appended[2].state = STATE_RUNNING
       /\ \A i \in 1..Len(trace.appended) : trace.appended[i].depth = 1
       /\ monitor.fault_history = <<>>
       /\ ~monitor.fault_injection_enabled
       /\ monitor.active_fault = FAULT_NONE
       /\ monitor.health.fault_count = 0
       /\ monitor.health.recovery_count = 0

\* debug_init has returned after fopen failed.
C26_Witness ==
    /\ pc = "main_start"
    /\ monitor.log_file = "null"
    /\ Len(trace.console) = 1
    /\ log_count(monitor) = 2

----------------------------------------------------------------------------
LastTwo(buf) == SubSeq(buf, Len(buf) - 1, Len(buf))

\* C29: in every step, each escalating call of log_message is followed at once
\* by exactly one nested call, made in Fault at depth 2, that appends the
\* Warning 'System entered fault state' with the escalating entry's error kind;
\* no other call is nested and no call is deeper than 2; the two entries are
\* adjacent in the buffer; and when the buffer was full at the escalating call,
\* log_count is the capacity MAX_LOG_ENTRIES (1000 in the source) after the
\* nested call and the two oldest entries are gone.
C29_NestedAppendDoesNotEscalate ==
    [][ LET app == trace'.appended
        IN  \A i \in 1..Len(app) :
              /\ app[i].depth \in {1, 2}
              /\ app[i].depth = 2 <=> (i > 1 /\ IsEscalatingCall(app[i - 1]))
              /\ IsEscalatingCall(app[i])
                   => /\ i < Len(app)
                      /\ app[i + 1].entry = EnteredFaultEntry(app[i].entry.error_code)
                      /\ app[i + 1].state = STATE_FAULT
                      /\ ~IsEscalatingCall(app[i + 1])
                      /\ i + 1 = Len(app)
                           => LastTwo(monitor'.log_buffer)
                                = <<app[i].entry, app[i + 1].entry>>
                      /\ app[i].count = MAX_LOG_ENTRIES
                           => /\ CountAfterCall(app, i + 1, monitor') = MAX_LOG_ENTRIES
                              /\ (i = 1 /\ Len(app) = 2)
                                   => monitor'.log_buffer
                                        = SubSeq(monitor.log_buffer, 3, MAX_LOG_ENTRIES)
                                            \o <<app[1].entry, app[2].entry>>
      ]_vars

\* An Error entry escalated when the buffer was full: it and its nested Warning
\* are the step's two entries and the buffer is full again.
C29_Witness ==
    /\ Len(trace.appended) = 2
    /\ trace.appended[1].entry.level = LOG_ERROR
    /\ IsEscalatingCall(trace.appended[1])
    /\ trace.appended[1].count = MAX_LOG_ENTRIES
    /\ trace.appended[2].depth = 2
    /\ log_count(monitor) = MAX_LOG_ENTRIES
    /\ current_state = STATE_FAULT

----------------------------------------------------------------------------
\* The records of the fault history of m that are not resolved.
Unresolved(m) == {i \in 1..fault_count(m) : ~m.fault_history[i].resolved}

\* C30: a recovery started in Fault with k unresolved records appends k + 2
\* entries, all Info: the attempt notice, one resolution notice for each
\* unresolved record, and the success notice; it leaves the health fault_count
\* as it was, never assigns Fault, and ends in Running.
C30_RecoveryAppendsInfoOnly ==
    [][ (trace'.op = "recover" /\ current_state = STATE_FAULT)
        => LET app == trace'.appended
               k == Cardinality(Unresolved(monitor))
           IN  /\ Len(app) = k + 2
               /\ \A i \in 1..Len(app) :
                    /\ app[i].entry.level = LOG_INFO
                    /\ app[i].entry.message =
                         IF i = 1 THEN "Attempting fault recovery"
                         ELSE IF i = k + 2 THEN "Fault recovery successful"
                         ELSE "Fault resolved in recovery attempt"
               /\ monitor'.health.fault_count = monitor.health.fault_count
               /\ \A i \in 1..Len(trace'.states) : trace'.states[i] # STATE_FAULT
               /\ current_state' = STATE_RUNNING
      ]_vars

\* A recovery from Fault that found two unresolved records and appended four
\* entries.
C30_Witness ==
    /\ trace.op = "recover"
    /\ trace.before.current_state = STATE_FAULT
    /\ Len(trace.appended) = 4
    /\ fault_count(monitor) = 2
    /\ \A i \in 1..2 : monitor.fault_history[i].resolved

----------------------------------------------------------------------------
\* C27: the drive's state changes only from OFF to STARTING by a start
\* command, from STARTING to RUNNING by an update that brings the frequency to
\* the target, from STARTING or RUNNING to STOPPING by a stop command, and from
\* STOPPING to OFF by an update that brings the frequency to zero; a start
\* command outside OFF changes nothing, and a set-frequency command changes
\* the target only in RUNNING and nothing else ever.
C27_VfdStateMachine ==
    [][ /\ vfd'.state # vfd.state
          => \/ /\ vfd.state = VFD_STATE_OFF
                /\ vfd'.state = VFD_STATE_STARTING
                /\ vfd_last'.key = "s"
             \/ /\ vfd.state = VFD_STATE_STARTING
                /\ vfd'.state = VFD_STATE_RUNNING
                /\ vfd_last'.key = "update"
                /\ vfd'.current_frequency = vfd.target_frequency
             \/ /\ vfd.state \in {VFD_STATE_STARTING, VFD_STATE_RUNNING}
                /\ vfd'.state = VFD_STATE_STOPPING
                /\ vfd_last'.key = "x"
             \/ /\ vfd.state = VFD_STATE_STOPPING
                /\ vfd'.state = VFD_STATE_OFF
                /\ vfd_last'.key = "update"
                /\ vfd'.current_frequency = 0
        /\ (vfd_last'.key = "s" /\ vfd.state # VFD_STATE_OFF) => vfd' = vfd
        /\ vfd_last'.key = "f"
             => /\ vfd'.target_frequency # vfd.target_frequency
                     => /\ vfd.state = VFD_STATE_RUNNING
                        /\ vfd'.target_frequency = vfd_last'.frequency
                /\ vfd'.state = vfd.state
                /\ vfd'.current_frequency = vfd.current_frequency
      ]_vars

\* The drive is STOPPING one step below the highest frequency, so it was
\* started, came to RUNNING, had its target raised there and was stopped; and
\* the key just read was a start command, which changed nothing.
C27_Witness ==
    /\ vfd.state = VFD_STATE_STOPPING
    /\ vfd.current_frequency = MAX_FREQUENCY - ramp_increment(SIMULATION_STEP)
    /\ vfd_last.key = "s"
    /\ vfd_pc = "update"

----------------------------------------------------------------------------
\* C28: while the drive is STOPPING no step raises the frequency, no key
\* changes the drive, and the state stays STOPPING or becomes OFF; and a drive
\* that is STOPPING comes to OFF with frequency 0 unless the operator quits
\* the emulator first.
C28_StopCompletes ==
    /\ [][ vfd.state = VFD_STATE_STOPPING
             => /\ vfd'.current_frequency <= vfd.current_frequency
                /\ vfd'.state \in {VFD_STATE_STOPPING, VFD_STATE_OFF}
                /\ vfd_last'.key # "update" => vfd' = vfd
         ]_vars
    /\ (vfd.state = VFD_STATE_STOPPING)
         ~> \/ vfd.state = VFD_STATE_OFF /\ vfd.current_frequency = 0
            \/ vfd_pc = "exit"

\* The stop has completed after a start, a stop and a set-frequency command
\* were each turned down in STOPPING.
C28_Witness ==
    /\ vfd.state = VFD_STATE_OFF
    /\ vfd.current_frequency = 0
    /\ vfd_last.key = "update"
    /\ vfd_last.rejected = {"s", "x", "f"}

----------------------------------------------------------------------------
\* The fault-effect tick about to run calls a generator that logs its event.
EventDue ==
    /\ monitor.fault_injection_enabled
    /\ monitor.active_fault \in FaultKinds
    /\ (statics.fault_call_count + 1) % THROTTLE_DIVISOR = 0
    /\ (statics.effect_count[monitor.active_fault] + 1) % EFFECT_DIVISOR = 0

\* C31: a fault-effect tick taken with injection disabled appends nothing; a
\* recovery from Fault leaves injection disabled and no fault active, and only
\* inject_fault enables injection again; a step that moves the state to Fault
\* leaves the injection flag and the active fault as they were; and in Fault a
\* fault-effect tick whose event is due appends it.
C31_EffectsOnlyWhileEnabled ==
    [][ /\ (trace'.op = "effect_tick" /\ ~monitor.fault_injection_enabled)
             => trace'.appended = <<>>
        /\ (trace'.op = "recover" /\ current_state = STATE_FAULT)
             => /\ ~monitor'.fault_injection_enabled
                /\ monitor'.active_fault = FAULT_NONE
        /\ (~monitor.fault_injection_enabled /\ monitor'.fault_injection_enabled)
             => trace'.op = "inject"
        /\ (current_state # STATE_FAULT /\ current_state' = STATE_FAULT)
             => /\ monitor'.fault_injection_enabled = monitor.fault_injection_enabled
                /\ monitor'.active_fault = monitor.active_fault
        /\ (trace'.op = "effect_tick" /\ current_state = STATE_FAULT /\ EventDue)
             => /\ Len(trace'.appended) = 1
                /\ trace'.appended[1].entry.message = EffectMessage(monitor.active_fault)
                /\ current_state' = STATE_FAULT
      ]_vars

\* In Fault, with injection still enabled, a fault-effect tick has appended the
\* event of the active kind.
C31_Witness ==
    /\ trace.op = "effect_tick"
    /\ trace.before.current_state = STATE_FAULT
    /\ current_state = STATE_FAULT
    /\ monitor.fault_injection_enabled
    /\ Len(trace.appended) = 1
    /\ trace.appended[1].entry.message = EffectMessage(monitor.active_fault)

----------------------------------------------------------------------------
\* C32: between the operations of the loop the state is never Recovery: once
\* debug_init has returned, every operation of main starts and ends in Running
\* or Fault, and Recovery is assigned only by a recovery, which assigns Running
\* before it returns.
C32_RecoveryIsAtomic ==
    /\ current_state # STATE_RECOVERY
    /\ pc # "init" => current_state \in {STATE_RUNNING, STATE_FAULT}
    /\ trace.op \notin {"start", "debug_init"}
         => trace.before.current_state \in {STATE_RUNNING, STATE_FAULT}
    /\ (\E i \in 1..Len(trace.states) : trace.states[i] = STATE_RECOVERY)
         => /\ trace.op = "recover"
            /\ trace.states = <<STATE_RECOVERY, STATE_RUNNING>>

\* The loop goes on to the simulators after a recovery that passed through
\* Recovery and spent its delay.
C32_Witness ==
    /\ pc = "simulate"
    /\ trace.op = "recover"
    /\ trace.states = <<STATE_RECOVERY, STATE_RUNNING>>
    /\ current_state = STATE_RUNNING
    /\ now >= StartTime + RECOVERY_DELAY_S

----------------------------------------------------------------------------
----------------------------------------------------------------------------
\* C34: the health fault_count is the number of entries of level Error or
\* higher appended since debug_init, modulo 2^16: every operation adds to it
\* the number of such entries it appended, in whatever state it appended them,
\* and an injection, which adds a record to the fault history, leaves it alone.
C34_FaultCountCountsErrors ==
    /\ monitor.health.fault_count = observed.errors % UINT16_MOD
    /\ trace.op = "inject"
         => /\ CallsWhere(trace.appended, IsErrorOrHigher) = {}
            /\ fault_count(monitor) >= trace.before.fault_count

\* In Fault an operation appended an entry of level Error or higher: it was
\* counted and the state was not touched; the history holds fewer records
\* than fault_count counts.
C34_Witness ==
    /\ trace.before.current_state = STATE_FAULT
    /\ trace.states = <<>>
    /\ Cardinality(CallsWhere(trace.appended, IsErrorOrHigher)) = 1
    /\ monitor.health.fault_count = 2
    /\ observed.errors = 2
    /\ fault_count(monitor) < 2

----------------------------------------------------------------------------
----------------------------------------------------------------------------
\* The ticks between two events of one kind: one generator call in four ticks,
\* one event in five calls.
EventPeriod == THROTTLE_DIVISOR * EFFECT_DIVISOR

\* C38: a recovery and an injection leave fault_call_count and the counters of
\* the generators as they were; and through any run of enabled ticks with one
\* fault kind active, recoveries and injections of that kind in between or not,
\* an event of that kind comes exactly 20 ticks after the one before it, the
\* first one no later than the 20th tick of the run, and no other tick of the
\* run appends anything.
C38_CountersSurviveRecovery ==
    [][ /\ trace'.op \in {"recover", "inject"} => statics' = statics
        /\ (trace'.op = "effect_tick" /\ monitor.fault_injection_enabled)
             => LET same == monitor.active_fault = observed.run.kind
                    n == (IF same THEN observed.run.since ELSE 0) + 1
                IN  IF trace'.appended # <<>>
                    THEN /\ trace'.appended[1].entry.message
                              = EffectMessage(monitor.active_fault)
                         /\ n <= EventPeriod
                         /\ (same /\ observed.run.seen > 0) => n = EventPeriod
                    ELSE n < EventPeriod
      ]_vars

\* The first event of a run of MemoryLeak comes on the 20th enabled tick of
\* the run, after a recovery and a second injection of MemoryLeak.
C38_Witness ==
    /\ trace.op = "effect_tick"
    /\ trace.appended # <<>>
    /\ observed.run = [kind |-> FAULT_MEMORY_LEAK, since |-> 0, seen |-> 1]
    /\ monitor.health.recovery_count = 1
    /\ statics.effect_count[FAULT_MEMORY_LEAK] = EFFECT_DIVISOR
    /\ statics.fault_call_count = Cardinality(FaultKinds) * ArmingTicks + THROTTLE_DIVISOR

----------------------------------------------------------------------------
\* C36: injection is enabled exactly when a fault is active (the operator's
\* injections are of the five kinds 1..5).
C36_EnabledIffActive ==
    /\ monitor.fault_injection_enabled <=> monitor.active_fault # FAULT_NONE
    /\ monitor.active_fault \in {FAULT_NONE} \cup FaultKinds
    /\ trace.op = "inject" => trace.arg \in FaultKinds

\* After an injection and a recovery: injection is disabled and no fault is
\* active, with the record of the injection still in the history.
C36_Witness ==
    /\ trace.op = "recover"
    /\ trace.before.current_state = STATE_FAULT
    /\ ~monitor.fault_injection_enabled
    /\ monitor.active_fault = FAULT_NONE
    /\ fault_count(monitor) = 1
    /\ monitor.fault_history[1].resolved

----------------------------------------------------------------------------
\* C37: no operation removes a record of the fault history or changes one
\* otherwise than a recovery setting its resolved flag; only an injection adds
\* a record, one at a time; and an injection into a full history changes no
\* record, whether the records are resolved or not.
C37_SlotsNeverReclaimed ==
    [][ /\ fault_count(monitor') >= fault_count(monitor)
        /\ \A i \in 1..fault_count(monitor) :
             \/ monitor'.fault_history[i] = monitor.fault_history[i]
             \/ /\ trace'.op = "recover"
                /\ monitor'.fault_history[i] =
                     [monitor.fault_history[i] EXCEPT !.resolved = TRUE]
        /\ fault_count(monitor') > fault_count(monitor)
             => /\ trace'.op = "inject"
                /\ monitor'.fault_history =
                     Append(monitor.fault_history, NewRecord(trace'.arg))
        /\ (trace'.op = "inject" /\ fault_count(monitor) = MAX_FAULT_HISTORY)
             => monitor'.fault_history = monitor.fault_history
      ]_vars

\* Every record of the full history is resolved, and the injection that
\* followed was logged and activated but not recorded.
C37_Witness ==
    /\ trace.op = "inject"
    /\ trace.before.fault_count = MAX_FAULT_HISTORY
    /\ fault_count(monitor) = MAX_FAULT_HISTORY
    /\ \A i \in 1..MAX_FAULT_HISTORY : monitor.fault_history[i].resolved
    /\ EntriesOf(trace.appended) = <<InjectEntry>>
    /\ monitor.fault_injection_enabled
    /\ monitor.active_fault = trace.arg

----------------------------------------------------------------------------
\* C39: the gauges a health tick has drawn are not above the thresholds 90 and
\* 85, so the tick appends no 'CPU usage critical' and no 'Memory usage
\* critical' entry: it appends nothing, or the Critical watchdog entry, followed
\* by the 'entered fault state' Warning when the state was Running; and it
\* moves the state to Fault only with the watchdog entry.
C39_HealthTickAppendsWatchdogOnly ==
    trace.op = "health_tick"
    => /\ monitor.health.cpu_usage_percent <= 90
       /\ monitor.health.memory_usage_percent <= 85
       /\ \A i \in 1..Len(trace.appended) :
            trace.appended[i].entry.error_code
              \notin {ERR_SYSTEM_OVERLOAD, ERR_MEMORY_CORRUPTION}
       /\ \/ trace.appended = <<>>
          \/ EntriesOf(trace.appended) = <<WatchdogEntry>>
          \/ EntriesOf(trace.appended) =
               <<WatchdogEntry, EnteredFaultEntry(ERR_WATCHDOG_TIMEOUT)>>
       /\ trace.states # <<>>
            => /\ trace.states = <<STATE_FAULT>>
               /\ trace.appended[1].entry = WatchdogEntry

\* A health tick drew the highest gauges there are, 49 and 79, and appended
\* nothing.
C39_Witness ==
    /\ trace.op = "health_tick"
    /\ monitor.health.cpu_usage_percent = 10 + 39
    /\ monitor.health.memory_usage_percent = 20 + 59
    /\ trace.appended = <<>>
    /\ current_state = STATE_RUNNING

====
